---- MODULE Spec2Model ----
(***************************************************************************)
(* Model of the MCP-composition scan of mcp-security-scans                 *)
(* (src/src/analyze.py: scan_repo_for_mcp_composition,                    *)
(* get_composition_info).                                                 *)
(*                                                                         *)
(* Text is a sequence of one-character strings.  Offsets are Python's      *)
(* 0-based offsets; At(s, i) reads s[i].                                   *)
(***************************************************************************)
EXTENDS Integers, Sequences, FiniteSets, TLC

VARIABLES
    tree,             \* what os.walk yields: a sequence of directories, each a sequence of file ids
    pc,               \* position in scan_repo_for_mcp_composition
    dirIdx,           \* number of directories os.walk has yielded so far
    fileIdx,          \* number of files of the current directory the inner loop has taken
    mcp_composition,  \* analyze.py:388
    error_details,    \* analyze.py:389
    opened,           \* paths handed to open(), in order
    matched,          \* paths on which the brace-matching loop ran, in order
    parse_calls,      \* decoder invocations, in order: [path, fn, arg]
    composition_arg,  \* the argument of the call of get_composition_info
    info_return,      \* what get_composition_info returned, None before the call
    existing_repos,   \* main: the repositories of the organisation, each with what happens to it
    github_token,     \* main: whether GITHUB_TOKEN is set
    num_repos,        \* main: args.num_repos
    repo_idx,         \* main: number of repositories the loop has taken
    scanned_repos,    \* analyze.py:593
    skipped_repos,    \* analyze.py:594
    failed_analysis_repos,  \* analyze.py:616
    issues,           \* the calls of create_issue, in order: [repo, title]
    main_pc,          \* position in main
    ghas_properties,  \* should_scan_repository_for_GHAS_alerts: the argument properties
    ghas_threshold,   \* should_scan_repository_for_GHAS_alerts: the argument days_threshold
    ghas_return,      \* what should_scan_repository_for_GHAS_alerts did, None before the call
    repo_properties,  \* generate_report: the argument repo_properties
    ci_env,           \* generate_report: os.getenv("CI")
    json_file,        \* generate_report: what json.dump wrote to the report file, None before
    secret_alerts,    \* get_secret_scanning_alerts: what the API pages hold, in order
    secret_api,       \* get_secret_scanning_alerts: how the paginated API call ends
    secret_return,    \* what get_secret_scanning_alerts returned, None before the call
    fork_pc,          \* process_mcp_repos.main: position
    all_server_repos, \* process_mcp_repos.main: the source URLs, sorted and without duplicates
    target_org_repos, \* process_mcp_repos.main: existing_repos, the repositories of the target organisation
    num_to_process,   \* process_mcp_repos.main: --num-repos
    url_idx,          \* process_mcp_repos.main: number of URLs the loop has taken
    processed_repo_count, \* process_mcp_repos.main: repositories processed in this run
    processed_repos,  \* process_mcp_repos.main: source names seen
    failed_forks,     \* process_mcp_repos.main: source name to failure reason
    skipped_non_fork_count, \* process_mcp_repos.main: repositories skipped as not the correct fork
    failed_fork_count, \* process_mcp_repos.main: repositories reported as failed
    fork_requests,    \* source names create_fork was requested for, in order
    ensure_return,    \* what the last ensure_repository_fork returned, with its source
    process_return,   \* what the last process_repository returned or raised
    alerts_env,       \* scan_repository_for_alerts: the repository and what the API answers
    alerts_stored,    \* scan_repository_for_alerts: the custom properties of the repository
    alerts_return,    \* what scan_repository_for_alerts returned, None before the call
    clone_pc,         \* position in clone_repository
    attempt,          \* github.py:403
    local_exists,     \* whether the directory local_repo_path exists
    temp_exists,      \* whether the directory <local_repo_path>_temp exists
    tarball_exists,   \* whether the file <local_repo_path>.tar.gz exists
    tarball_bound,    \* whether the local variable tarball_file is bound (github.py:411)
    api_results,      \* the calls of download_tarball_archive, in order: TRUE when it returned
    curl_results,     \* the runs of curl, in order: TRUE when it exited with 0
    valid_results,    \* the calls of is_valid_tarball, in order: what it returned
    tar_results,      \* the runs of tar, in order: TRUE when it exited with 0
    tar_targets,      \* for each run of tar, whether local_repo_path existed
    clone_outcome     \* "returned" or "raised" once clone_repository is left

scanVars == <<tree, pc, dirIdx, fileIdx, mcp_composition, error_details, opened, matched, parse_calls>>
infoVars == <<composition_arg, info_return>>
mainVars == <<existing_repos, github_token, num_repos, repo_idx, scanned_repos, skipped_repos,
              failed_analysis_repos, issues, main_pc>>
ghasVars == <<ghas_properties, ghas_threshold, ghas_return>>
reportVars == <<repo_properties, ci_env, json_file>>
secretVars == <<secret_alerts, secret_api, secret_return>>
forkVars == <<fork_pc, all_server_repos, target_org_repos, num_to_process, url_idx, processed_repo_count, processed_repos, failed_forks, skipped_non_fork_count, failed_fork_count, fork_requests, ensure_return, process_return>>
alertsVars == <<alerts_env, alerts_stored, alerts_return>>
cloneVars == <<clone_pc, attempt, local_exists, temp_exists, tarball_exists, tarball_bound,
               api_results, curl_results, valid_results, tar_results, tar_targets,
               clone_outcome>>

\* the variables of the functions outside the analysis of one repository
laterVars == <<cloneVars, reportVars, secretVars, forkVars, alertsVars>>

\* the variables of the analysis
earlierVars == <<scanVars, infoVars, mainVars, ghasVars>>

\* the variables a function of the later groups leaves alone
notCloneVars == <<earlierVars, reportVars, secretVars, forkVars, alertsVars>>
notReportVars == <<earlierVars, cloneVars, secretVars, forkVars, alertsVars>>
notSecretVars == <<earlierVars, cloneVars, reportVars, forkVars, alertsVars>>
notForkVars == <<earlierVars, cloneVars, reportVars, secretVars, alertsVars>>
notAlertsVars == <<earlierVars, cloneVars, reportVars, secretVars, forkVars>>





\* the variables scan_repo_for_mcp_composition does not touch: those of its callers
otherVars == <<infoVars, mainVars, ghasVars, laterVars>>

vars == <<scanVars, otherVars>>

-----------------------------------------------------------------------------
(* Bounds *)

\* greatest number of files in a walked tree
MaxFiles == 2
\* greatest n of the synthetic inputs prefix + "{"*n + body + "}"*n + suffix
MaxNest == 2

-----------------------------------------------------------------------------
(* Python values and string primitives *)

None == [t |-> "None"]

Min(S) == CHOOSE x \in S : \A y \in S : x <= y

\* s[i] for 0 <= i < len(s)
At(s, i) == s[i + 1]

\* s[i] with Python's negative indexing (i = -1 is the last character)
PyIndex(s, i) == IF i < 0 THEN s[Len(s) + i + 1] ELSE s[i + 1]

\* the bounds of the slice s[a:b] after Python's adjustment of negative and overlong indices
SliceBound(s, i) == IF i < 0 THEN (IF Len(s) + i < 0 THEN 0 ELSE Len(s) + i)
                    ELSE IF i > Len(s) THEN Len(s) ELSE i

\* s[a:b]
PySlice(s, a, b) ==
    LET lo == SliceBound(s, a)
        hi == SliceBound(s, b)
    IN  IF hi <= lo THEN <<>> ELSE SubSeq(s, lo + 1, hi)

\* s[a:]
PySliceFrom(s, a) == PySlice(s, a, Len(s))

\* s.replace(ch, "") for a one-character ch
Replace(s, ch) == SelectSeq(s, LAMBDA c : c # ch)

\* sub occurs in s at offset i
OccursAt(s, sub, i) ==
    /\ i >= 0
    /\ i + Len(sub) <= Len(s)
    /\ \A j \in 1..Len(sub) : s[i + j] = sub[j]

\* s.find(sub): the lowest offset of sub in s, or -1
Find(s, sub) ==
    LET hits == {i \in 0..(Len(s) - Len(sub)) : OccursAt(s, sub, i)}
    IN  IF hits = {} THEN -1 ELSE Min(hits)

\* sub in s
Contains(s, sub) == \E i \in 0..(Len(s) - Len(sub)) : OccursAt(s, sub, i)

\* "mcpServers":{
MARKER_MCPSERVERS ==
    <<"\"", "m", "c", "p", "S", "e", "r", "v", "e", "r", "s", "\"", ":", "{">>

\* "mcp":{"servers":{
MARKER_MCP_SERVERS ==
    <<"\"", "m", "c", "p", "\"", ":", "{", "\"", "s", "e", "r", "v", "e", "r", "s", "\"", ":", "{">>

\* content.replace(" ", "").replace("\n", "").replace("\t", "")
StripWhitespace(content) == Replace(Replace(Replace(content, " "), "\n"), "\t")

\* '"mcpServers":{' in stripped_content or '"mcp":{"servers":{' in stripped_content
HasMarker(stripped_content) ==
    \/ Contains(stripped_content, MARKER_MCPSERVERS)
    \/ Contains(stripped_content, MARKER_MCP_SERVERS)

\* start = find(first marker); if start == -1: start = find(second marker)
MarkerStart(stripped_content) ==
    LET first == Find(stripped_content, MARKER_MCPSERVERS)
    IN  IF first = -1 THEN Find(stripped_content, MARKER_MCP_SERVERS) ELSE first

\* stripped_content[start - 1] == '{'
PrecededByBrace(stripped_content, start) == PyIndex(stripped_content, start - 1) = "{"

\* the one element of a one-element set
The(S) == CHOOSE x \in S : TRUE

\* the least offset at or after from at which a character of stop stands in s, or len(s);
\* the set of such offsets is built once
NextOf(s, from, stop) ==
    The({IF hits = {} THEN Len(s) ELSE Min(hits) :
            hits \in {{i \in from..(Len(s) - 1) : At(s, i) \in stop}}})

\* the while loop that counts brackets, taken from one bracket to the next (the characters
\* between change no count): from (end, open, close) to the offset where the counts meet,
\* or to the end of the content
RECURSIVE MatchBrackets(_, _, _, _)

\* the loop body at the next bracket, or past the last character
MatchNext(s, next, open_brackets, close_brackets) ==
    IF next >= Len(s)
    THEN [closed |-> FALSE, end |-> Len(s)]
    ELSE MatchBrackets(s, next,
                       open_brackets + (IF At(s, next) = "{" THEN 1 ELSE 0),
                       close_brackets + (IF At(s, next) = "}" THEN 1 ELSE 0))

MatchBrackets(s, end, open_brackets, close_brackets) ==
    IF open_brackets = close_brackets
    THEN [closed |-> TRUE, end |-> end]
    ELSE MatchNext(s, NextOf(s, end + 1, {"{", "}"}), open_brackets, close_brackets)

-----------------------------------------------------------------------------
(* The walked trees: file texts, file attributes, directories *)

\* # t\n{"mcpServers": {"a": {"command": "npx"}}}\nend\n
GoodDoc ==
    <<"#", " ", "t", "\n", "{", "\"", "m", "c", "p", "S", "e", "r", "v", "e", "r", "s", "\"",
      ":", " ", "{", "\"", "a", "\"", ":", " ", "{", "\"", "c", "o", "m", "m", "a", "n", "d",
      "\"", ":", " ", "\"", "n", "p", "x", "\"", "}", "}", "}", "\n", "e", "n", "d", "\n">>

\* {"mcp":{"servers":{"a":{"command":"uv"}}}}
AltDoc ==
    <<"{", "\"", "m", "c", "p", "\"", ":", "{", "\"", "s", "e", "r", "v", "e", "r", "s", "\"",
      ":", "{", "\"", "a", "\"", ":", "{", "\"", "c", "o", "m", "m", "a", "n", "d", "\"", ":",
      "\"", "u", "v", "\"", "}", "}", "}", "}">>

\* {"mcp": {"a": null}}\n
NoMarkerDoc ==
    <<"{", "\"", "m", "c", "p", "\"", ":", " ", "{", "\"", "a", "\"", ":", " ", "n", "u", "l",
      "l", "}", "}", "\n">>

\* x {"mcpServers":{"a":{
UnclosedDoc ==
    <<"x", " ", "{", "\"", "m", "c", "p", "S", "e", "r", "v", "e", "r", "s", "\"", ":", "{",
      "\"", "a", "\"", ":", "{">>

\* x "mcpServers":{"a":{
BareUnclosedDoc ==
    <<"x", " ", "\"", "m", "c", "p", "S", "e", "r", "v", "e", "r", "s", "\"", ":", "{",
      "\"", "a", "\"", ":", "{">>

\* {"a":null,"mcpServers":{"a":{}}}
SiblingDoc ==
    <<"{", "\"", "a", "\"", ":", "n", "u", "l", "l", ",", "\"", "m", "c", "p", "S", "e", "r",
      "v", "e", "r", "s", "\"", ":", "{", "\"", "a", "\"", ":", "{", "}", "}", "}">>

\* pre\n{"mcpServers":{"a":{"command":"npx","env":{"e":"a#//"}}}}\npost\n
CleanDoc ==
    <<"p", "r", "e", "\n", "{", "\"", "m", "c", "p", "S", "e", "r", "v", "e", "r", "s", "\"",
      ":", "{", "\"", "a", "\"", ":", "{", "\"", "c", "o", "m", "m", "a", "n", "d", "\"", ":",
      "\"", "n", "p", "x", "\"", ",", "\"", "e", "n", "v", "\"", ":", "{", "\"", "e", "\"",
      ":", "\"", "a", "#", "/", "/", "\"", "}", "}", "}", "}", "\n", "p", "o", "s", "t", "\n">>

\* pre\n{"mcpServers":{"a":{"command":"npx","env":{"e":"a#//",}}}}\npost\n
TrailingCommaDoc ==
    <<"p", "r", "e", "\n", "{", "\"", "m", "c", "p", "S", "e", "r", "v", "e", "r", "s", "\"",
      ":", "{", "\"", "a", "\"", ":", "{", "\"", "c", "o", "m", "m", "a", "n", "d", "\"", ":",
      "\"", "n", "p", "x", "\"", ",", "\"", "e", "n", "v", "\"", ":", "{", "\"", "e", "\"",
      ":", "\"", "a", "#", "/", "/", "\"", ",", "}", "}", "}", "}", "\n", "p", "o", "s", "t",
      "\n">>

\* pre\n{"mcpServers":{"a":{"command":"npx", // c\n"env":{"e":"a#//"}}}}\npost\n
SlashCommentDoc ==
    <<"p", "r", "e", "\n", "{", "\"", "m", "c", "p", "S", "e", "r", "v", "e", "r", "s", "\"",
      ":", "{", "\"", "a", "\"", ":", "{", "\"", "c", "o", "m", "m", "a", "n", "d", "\"", ":",
      "\"", "n", "p", "x", "\"", ",", " ", "/", "/", " ", "c", "\n", "\"", "e", "n", "v", "\"",
      ":", "{", "\"", "e", "\"", ":", "\"", "a", "#", "/", "/", "\"", "}", "}", "}", "}", "\n",
      "p", "o", "s", "t", "\n">>

\* pre\n{"mcpServers":{"a":{"command":"npx", # c\n"env":{"e":"a#//"}}}}\npost\n
HashCommentDoc ==
    <<"p", "r", "e", "\n", "{", "\"", "m", "c", "p", "S", "e", "r", "v", "e", "r", "s", "\"",
      ":", "{", "\"", "a", "\"", ":", "{", "\"", "c", "o", "m", "m", "a", "n", "d", "\"", ":",
      "\"", "n", "p", "x", "\"", ",", " ", "#", " ", "c", "\n", "\"", "e", "n", "v", "\"", ":",
      "{", "\"", "e", "\"", ":", "\"", "a", "#", "/", "/", "\"", "}", "}", "}", "}", "\n", "p",
      "o", "s", "t", "\n">>

\* x{"mcpServers":{"a":{"command":"\\xaa"}}}
EscapedDoc ==
    <<"x", "{", "\"", "m", "c", "p", "S", "e", "r", "v", "e", "r", "s", "\"", ":", "{", "\"",
      "a", "\"", ":", "{", "\"", "c", "o", "m", "m", "a", "n", "d", "\"", ":", "\"", "\\", "x",
      "a", "a", "\"", "}", "}", "}">>

\* "mcpServers":{}}{
WrapDoc ==
    <<"\"", "m", "c", "p", "S", "e", "r", "v", "e", "r", "s", "\"", ":", "{", "}", "}", "{">>

\* "mcpServers":{{
WrapUnclosedDoc ==
    <<"\"", "m", "c", "p", "S", "e", "r", "v", "e", "r", "s", "\"", ":", "{", "{">>

\* "mcpServers": {"a": {}}
SynthBody ==
    <<"\"", "m", "c", "p", "S", "e", "r", "v", "e", "r", "s", "\"", ":", " ", "{", "\"", "a",
      "\"", ":", " ", "{", "}", "}">>

\* # t\n
SynthPrefix ==
    <<"#", " ", "t", "\n">>

\* \nend
SynthSuffix ==
    <<"\n", "e", "n", "d">>

\* ch repeated n times
Rep(ch, n) == [i \in 1..n |-> ch]

\* prefix + "{" * n + marker body + "}" * n + suffix
Synth(pre, n, suf) == pre \o Rep("{", n) \o SynthBody \o Rep("}", n) \o suf

DocNames ==
    {"GoodDoc", "AltDoc", "NoMarkerDoc", "UnclosedDoc", "BareUnclosedDoc", "SiblingDoc", "CleanDoc",
     "TrailingCommaDoc", "SlashCommentDoc", "HashCommentDoc", "EscapedDoc", "WrapDoc",
     "WrapUnclosedDoc"}

\* a file of the tree: its text (a named document, or the synthetic document of nesting n
\* with or without prefix and suffix), the MIME type guessed from its name, and what reading
\* it does ("utf8": decodes; "latin1": decodes at the second attempt; "fail": cannot be read)
File(doc, n, pre, suf, mime, read) ==
    [doc |-> doc, n |-> n, pre |-> pre, suf |-> suf, mime |-> mime, read |-> read]

FileSet ==
    {File(d, 0, FALSE, FALSE, "text/markdown", "utf8") : d \in DocNames}
    \cup {File("Synth", n, p, s, "text/markdown", "utf8") :
            n \in 1..MaxNest, p \in BOOLEAN, s \in BOOLEAN}
    \cup {File("GoodDoc", 0, FALSE, FALSE, "image/png", "utf8"),
          File("GoodDoc", 0, FALSE, FALSE, "text/plain", "fail"),
          File("AltDoc", 0, FALSE, FALSE, "None", "latin1"),
          File("TrailingCommaDoc", 0, FALSE, FALSE, "application/json", "utf8")}

\* what f.read() returns for a readable file
ContentOf(f) ==
    CASE f.doc = "GoodDoc" -> GoodDoc
      [] f.doc = "AltDoc" -> AltDoc
      [] f.doc = "NoMarkerDoc" -> NoMarkerDoc
      [] f.doc = "UnclosedDoc" -> UnclosedDoc
      [] f.doc = "BareUnclosedDoc" -> BareUnclosedDoc
      [] f.doc = "SiblingDoc" -> SiblingDoc
      [] f.doc = "CleanDoc" -> CleanDoc
      [] f.doc = "TrailingCommaDoc" -> TrailingCommaDoc
      [] f.doc = "SlashCommentDoc" -> SlashCommentDoc
      [] f.doc = "HashCommentDoc" -> HashCommentDoc
      [] f.doc = "EscapedDoc" -> EscapedDoc
      [] f.doc = "WrapDoc" -> WrapDoc
      [] f.doc = "WrapUnclosedDoc" -> WrapUnclosedDoc
      [] f.doc = "Synth" -> Synth(IF f.pre THEN SynthPrefix ELSE <<>>, f.n,
                                  IF f.suf THEN SynthSuffix ELSE <<>>)

\* the directories os.walk yields for the files fs in walk order, a new directory starting
\* after each position in cuts; the root is yielded even when it holds no file
RECURSIVE Dirs(_, _, _)
Dirs(fs, cuts, from) ==
    IF from > Len(fs) THEN <<>>
    ELSE LET to == Min({c \in cuts \cup {Len(fs)} : c >= from})
         IN  <<SubSeq(fs, from, to)>> \o Dirs(fs, cuts, to + 1)

TreeSet ==
    {<< <<>> >>} \cup
    {Dirs(fs, cuts, 1) : <<fs, cuts>> \in
        UNION {[1..n -> FileSet] \X SUBSET (1..(n - 1)) : n \in 1..MaxFiles}}

-----------------------------------------------------------------------------
(* The decoders the scan calls: json.loads and ast.literal_eval of the      *)
(* standard library, over the alphabet Chars.                              *)

\* the characters of the modelled texts; "<BEL>", "<VT>" and "<hi>" stand for the one
\* character \x07, \x0b and any character above \x7f, which only an escape can produce
Chars ==
    {"{", "}", "[", "]", ",", ":", "\"", "\\", "#", "/", " ", "\n", "\t", "\r",
     "m", "c", "p", "S", "e", "r", "v", "s", "a", "n", "x", "u", "o", "d", "t", "l", "y",
     "<BEL>", "<VT>", "<hi>"}

\* json.decoder.WHITESPACE
WHITESPACE == {" ", "\t", "\n", "\r"}

\* the characters below \x20, which end a string chunk
ControlChars == {"\t", "\n", "\r", "<BEL>", "<VT>"}

\* the characters of Chars that are hexadecimal digits
HexDigits == {"a", "c", "d", "e"}

\* json.decoder.BACKSLASH, restricted to Chars
BACKSLASH == [c \in {"\"", "\\", "/", "n", "r", "t"} |->
                 CASE c = "n" -> "\n" [] c = "r" -> "\r" [] c = "t" -> "\t" [] OTHER -> c]

JStr(cs) == [t |-> "str", v |-> cs]
JLit(name) == [t |-> "lit", v |-> name]
JArr(vs) == [t |-> "arr", v |-> vs]
JObj(pairs) == [t |-> "obj", v |-> pairs]

Ok(val, end) == [ok |-> TRUE, val |-> val, end |-> end]
Fail(msg, pos) == [ok |-> FALSE, msg |-> msg, pos |-> pos]

\* WHITESPACE.match(s, idx).end()
RECURSIVE SkipWhitespace(_, _)
SkipWhitespace(s, idx) ==
    IF idx < Len(s) /\ At(s, idx) \in WHITESPACE THEN SkipWhitespace(s, idx + 1) ELSE idx

\* the n characters from offset idx are hexadecimal digits
HexAt(s, idx, n) == idx + n <= Len(s) /\ \A k \in 0..(n - 1) : At(s, idx + k) \in HexDigits

\* \uXXXX at offset idx (the offset of the u) is a high surrogate (d800..dbff) followed by an
\* escaped low surrogate (dc00..dfff), which the decoder joins into one character
SurrogatePair(s, idx) ==
    /\ At(s, idx + 1) = "d" /\ At(s, idx + 2) = "a"
    /\ PySlice(s, idx + 5, idx + 7) = <<"\\", "u">>
    /\ HexAt(s, idx + 7, 4)
    /\ At(s, idx + 7) = "d" /\ At(s, idx + 8) \in {"c", "d", "e"}

\* a high surrogate followed by \u and something that is not four hexadecimal digits
BadSecondEscape(s, idx) ==
    /\ At(s, idx + 1) = "d" /\ At(s, idx + 2) = "a"
    /\ PySlice(s, idx + 5, idx + 7) = <<"\\", "u">>
    /\ ~HexAt(s, idx + 7, 4)

\* the characters at which a chunk of a JSON string ends
StringTerminators == {"\"", "\\"} \cup ControlChars

\* the number of characters of the escape at the backslash at offset term of a JSON string
JsonEscapeLength(s, term) ==
    IF At(s, term + 1) # "u" THEN 2 ELSE IF SurrogatePair(s, term + 1) THEN 12 ELSE 6

\* the character the escape at offset term stands for
JsonEscapeValue(s, term) ==
    IF At(s, term + 1) = "u" THEN "<hi>" ELSE BACKSLASH[At(s, term + 1)]

\* json.decoder.scanstring(s, end, strict=True): begin is the offset of the opening quote,
\* end the offset from which the next chunk is read, acc the characters decoded so far
RECURSIVE ScanString(_, _, _, _)

\* what ends the chunk, at offset term; acc holds the chunk
ScanTerminator(s, begin, term, acc) ==
    IF term >= Len(s) THEN Fail("Unterminated string starting at", begin)
    ELSE IF At(s, term) = "\"" THEN Ok(acc, term + 1)
    ELSE IF At(s, term) # "\\" THEN Fail("Invalid control character at", term)
    ELSE IF term + 1 >= Len(s) THEN Fail("Unterminated string starting at", begin)
    ELSE IF At(s, term + 1) = "u" /\ ~HexAt(s, term + 2, 4)
    THEN Fail("Invalid \\uXXXX escape", term + 1)
    ELSE IF At(s, term + 1) = "u" /\ BadSecondEscape(s, term + 1)
    THEN Fail("Invalid \\uXXXX escape", term + 7)
    ELSE IF At(s, term + 1) \notin DOMAIN BACKSLASH \cup {"u"}
    THEN Fail("Invalid \\escape", term)
    ELSE ScanString(s, begin, term + JsonEscapeLength(s, term),
                    Append(acc, JsonEscapeValue(s, term)))

\* the chunk from end to its terminator
ScanChunk(s, begin, end, acc, term) ==
    ScanTerminator(s, begin, term, acc \o PySlice(s, end, term))

ScanString(s, begin, end, acc) ==
    ScanChunk(s, begin, end, acc, NextOf(s, end, StringTerminators))

\* dict(pairs) built one pair at a time: a repeated key keeps its place and takes the new value
DictSet(pairs, key, val) ==
    IF \E i \in 1..Len(pairs) : pairs[i].k = key
    THEN [i \in 1..Len(pairs) |-> IF pairs[i].k = key THEN [k |-> key, v |-> val] ELSE pairs[i]]
    ELSE Append(pairs, [k |-> key, v |-> val])

RECURSIVE ScanOnce(_, _), ObjectLoop(_, _, _), ArrayLoop(_, _, _)

\* json.scanner.py_make_scanner._scan_once; StopIteration(idx) is given as the
\* "Expecting value" error every caller turns it into
ScanOnce(s, idx) ==
    IF idx >= Len(s) THEN Fail("Expecting value", idx)
    ELSE LET nextchar == At(s, idx)
         IN  IF nextchar = "\""
             THEN LET r == ScanString(s, idx, idx + 1, <<>>)
                  IN  IF r.ok THEN Ok(JStr(r.val), r.end) ELSE r
             ELSE IF nextchar = "{"
             THEN LET end == idx + 1
                      first == IF end < Len(s) /\ At(s, end) \in WHITESPACE
                               THEN SkipWhitespace(s, end) ELSE end
                      c == PySlice(s, first, first + 1)
                  IN  IF c = <<"\"">> THEN ObjectLoop(s, first + 1, <<>>)
                      ELSE IF c = <<"}">> THEN Ok(JObj(<<>>), first + 1)
                      ELSE Fail("Expecting property name enclosed in double quotes", first)
             ELSE IF nextchar = "["
             THEN LET first == SkipWhitespace(s, idx + 1)
                  IN  IF PySlice(s, first, first + 1) = <<"]">>
                      THEN Ok(JArr(<<>>), first + 1)
                      ELSE ArrayLoop(s, first, <<>>)
             ELSE IF nextchar = "n" /\ PySlice(s, idx, idx + 4) = <<"n", "u", "l", "l">>
             THEN Ok(JLit("null"), idx + 4)
             ELSE IF nextchar = "t" /\ PySlice(s, idx, idx + 4) = <<"t", "r", "u", "e">>
             THEN Ok(JLit("true"), idx + 4)
             ELSE Fail("Expecting value", idx)

\* the while loop of json.decoder.JSONObject; end is the offset after a key's opening quote
ObjectLoop(s, end, pairs) ==
    LET key == ScanString(s, end - 1, end, <<>>)
    IN  IF ~key.ok THEN key
        ELSE LET colon == SkipWhitespace(s, key.end)
             IN  IF PySlice(s, colon, colon + 1) # <<":">>
                 THEN Fail("Expecting ':' delimiter", colon)
                 ELSE LET value == ScanOnce(s, SkipWhitespace(s, colon + 1))
                      IN  IF ~value.ok THEN value
                          ELSE LET after == SkipWhitespace(s, value.end)
                                   nextchar == PySlice(s, after, after + 1)
                                   sofar == DictSet(pairs, key.val, value.val)
                               IN  IF nextchar = <<"}">> THEN Ok(JObj(sofar), after + 1)
                                   ELSE IF nextchar # <<",">>
                                   THEN Fail("Expecting ',' delimiter", after)
                                   ELSE LET name == SkipWhitespace(s, after + 1)
                                        IN  IF PySlice(s, name, name + 1) # <<"\"">>
                                            THEN Fail("Expecting property name enclosed in double quotes", name)
                                            ELSE ObjectLoop(s, name + 1, sofar)

\* the while loop of json.decoder.JSONArray; end is the offset of the next value
ArrayLoop(s, end, values) ==
    LET value == ScanOnce(s, end)
    IN  IF ~value.ok THEN value
        ELSE LET after == SkipWhitespace(s, value.end)
                 nextchar == PySlice(s, after, after + 1)
                 sofar == Append(values, value.val)
             IN  IF nextchar = <<"]">> THEN Ok(JArr(sofar), after + 1)
                 ELSE IF nextchar # <<",">> THEN Fail("Expecting ',' delimiter", after)
                 ELSE ArrayLoop(s, SkipWhitespace(s, after + 1), sofar)

\* json.loads(s): JSONDecoder.decode
JsonLoads(s) ==
    LET r == ScanOnce(s, SkipWhitespace(s, 0))
    IN  IF ~r.ok THEN r
        ELSE LET end == SkipWhitespace(s, r.end)
             IN  IF end # Len(s) THEN Fail("Extra data", end) ELSE r

\* the number of characters the backslash or carriage return at offset i takes with what
\* belongs to it
EscapeLength(s, i) ==
    CASE At(s, i) = "\r" -> IF PySlice(s, i + 1, i + 2) = <<"\n">> THEN 2 ELSE 1
      [] At(s, i + 1) = "x" -> 4
      [] At(s, i + 1) = "u" -> 6
      [] At(s, i + 1) = "\r" /\ PySlice(s, i + 2, i + 3) = <<"\n">> -> 3
      [] OTHER -> 2

\* what stands for it in the string: a line end is "\n", a backslash before a line end
\* removes it, an escape Python does not know stays as it is
EscapeValue(s, i) ==
    CASE At(s, i) = "\r" -> <<"\n">>
      [] At(s, i + 1) \in {"\n", "\r"} -> <<>>
      [] At(s, i + 1) \in {"\\", "\""} -> <<At(s, i + 1)>>
      [] At(s, i + 1) = "a" -> <<"<BEL>">>
      [] At(s, i + 1) = "n" -> <<"\n">>
      [] At(s, i + 1) = "r" -> <<"\r">>
      [] At(s, i + 1) = "t" -> <<"\t">>
      [] At(s, i + 1) = "v" -> <<"<VT>">>
      [] At(s, i + 1) \in {"x", "u"} -> <<"<hi>">>
      [] OTHER -> <<"\\", At(s, i + 1)>>

\* the text of a Python string literal read from offset i, acc being the text so far
RECURSIVE PyUnescape(_, _, _)

\* the backslash or carriage return at offset stop, or the end of the literal
UnescapeAt(s, stop, acc) ==
    IF stop >= Len(s) THEN Ok(acc, stop)
    ELSE IF At(s, stop) = "\\" /\ stop + 1 >= Len(s)
    THEN Fail("unterminated triple-quoted string literal", stop)
    ELSE IF At(s, stop) = "\\" /\ At(s, stop + 1) = "x" /\ ~HexAt(s, stop + 2, 2)
    THEN Fail("truncated \\xXX escape", stop)
    ELSE IF At(s, stop) = "\\" /\ At(s, stop + 1) = "u" /\ ~HexAt(s, stop + 2, 4)
    THEN Fail("truncated \\uXXXX escape", stop)
    ELSE PyUnescape(s, stop + EscapeLength(s, stop), acc \o EscapeValue(s, stop))

\* the characters from i up to the next backslash or carriage return stand for themselves
UnescapeChunk(s, i, acc, stop) == UnescapeAt(s, stop, acc \o PySlice(s, i, stop))

PyUnescape(s, i, acc) == UnescapeChunk(s, i, acc, NextOf(s, i, {"\\", "\r"}))

\* ast.literal_eval(f"'''{json_str}'''"): Chars has no single quote, so the literal ends at
\* the closing quotes unless a trailing backslash escapes them
LiteralEval(json_str) == PyUnescape(json_str, 0, <<>>)

-----------------------------------------------------------------------------
(* get_composition_info: Python values are the JSON values of the decoders,  *)
(* integers and None.                                                        *)

JNum(n) == [t |-> "num", v |-> n]

\* type(v).__name__
PyTypeName(v) ==
    CASE v.t = "None" -> "NoneType"
      [] v.t = "lit" -> IF v.v = "null" THEN "NoneType" ELSE "bool"
      [] v.t = "str" -> "str"
      [] v.t = "num" -> "int"
      [] v.t = "arr" -> "list"
      [] v.t = "obj" -> "dict"

\* bool(v)
Truthy(v) ==
    CASE v.t = "None" -> FALSE
      [] v.t = "lit" -> v.v = "true"
      [] v.t = "num" -> v.v # 0
      [] OTHER -> v.v # <<>>

\* the keys "mcpServers", "command" and "args"
KEY_MCPSERVERS == <<"m", "c", "p", "S", "e", "r", "v", "e", "r", "s">>
KEY_COMMAND == <<"c", "o", "m", "m", "a", "n", "d">>
KEY_ARGS == <<"a", "r", "g", "s">>

\* key in pairs, pairs[key] and pairs.get(key, default) of a dict
DictHas(pairs, key) == \E i \in DOMAIN pairs : pairs[i].k = key
DictGet(pairs, key) == pairs[CHOOSE i \in DOMAIN pairs : pairs[i].k = key].v
DictGetDefault(pairs, key, default) ==
    IF DictHas(pairs, key) THEN DictGet(pairs, key) ELSE default

\* key in v, for the values that support the test
PyIn(key, v) ==
    CASE v.t = "obj" -> DictHas(v.v, key)
      [] v.t = "arr" -> \E i \in DOMAIN v.v : v.v[i] = JStr(key)
      [] v.t = "str" -> Contains(v.v, key)

\* s.endswith(suffix)
EndsWith(s, suffix) ==
    Len(suffix) <= Len(s) /\ SubSeq(s, Len(s) - Len(suffix) + 1, Len(s)) = suffix

\* the decimal digits of a natural number
RECURSIVE Digits(_)
Digits(n) == IF n < 10 THEN <<ToString(n)>> ELSE Append(Digits(n \div 10), ToString(n % 10))

\* json.encoder: a character of a string as it is written with ensure_ascii
EncodeChar(c) ==
    CASE c = "\"" -> <<"\\", "\"">>
      [] c = "\\" -> <<"\\", "\\">>
      [] c = "\n" -> <<"\\", "n">>
      [] c = "\r" -> <<"\\", "r">>
      [] c = "\t" -> <<"\\", "t">>
      [] c = "<BEL>" -> <<"\\", "u", "0", "0", "0", "7">>
      [] c = "<VT>" -> <<"\\", "u", "0", "0", "0", "b">>
      [] c = "<hi>" -> <<"\\", "u", "<hex>", "<hex>", "<hex>", "<hex>">>
      [] OTHER -> <<c>>

\* json.encoder.encode_basestring_ascii
RECURSIVE EncodeString(_)
EncodeString(cs) ==
    IF cs = <<>> THEN <<>> ELSE EncodeChar(Head(cs)) \o EncodeString(Tail(cs))

Quoted(cs) == <<"\"">> \o EncodeString(cs) \o <<"\"">>

\* the newline and the indentation of a nesting level, two spaces a level
NewlineIndent(level) == <<"\n">> \o [i \in 1..(2 * level) |-> " "]

\* json.dumps(v, indent=2) at a nesting level
RECURSIVE Dumps(_, _), DumpItems(_, _, _), DumpPairs(_, _, _)
Dumps(v, level) ==
    CASE v.t = "None" -> <<"n", "u", "l", "l">>
      [] v.t = "lit" -> IF v.v = "null" THEN <<"n", "u", "l", "l">>
                        ELSE IF v.v = "true" THEN <<"t", "r", "u", "e">>
                        ELSE <<"f", "a", "l", "s", "e">>
      [] v.t = "num" -> Digits(v.v)
      [] v.t = "str" -> Quoted(v.v)
      [] v.t = "arr" -> IF v.v = <<>> THEN <<"[", "]">>
                        ELSE <<"[">> \o DumpItems(v.v, 1, level + 1)
                                     \o NewlineIndent(level) \o <<"]">>
      [] v.t = "obj" -> IF v.v = <<>> THEN <<"{", "}">>
                        ELSE <<"{">> \o DumpPairs(v.v, 1, level + 1)
                                     \o NewlineIndent(level) \o <<"}">>

\* the items of a list from the i-th on, each on its own line
DumpItems(vs, i, level) ==
    IF i > Len(vs) THEN <<>>
    ELSE NewlineIndent(level) \o Dumps(vs[i], level)
            \o (IF i < Len(vs) THEN <<",">> ELSE <<>>) \o DumpItems(vs, i + 1, level)

\* the pairs of a dict from the i-th on, each on its own line
DumpPairs(pairs, i, level) ==
    IF i > Len(pairs) THEN <<>>
    ELSE NewlineIndent(level) \o Quoted(pairs[i].k) \o <<":", " ">> \o Dumps(pairs[i].v, level)
            \o (IF i < Len(pairs) THEN <<",">> ELSE <<>>) \o DumpPairs(pairs, i + 1, level)

\* json.dumps(composition, indent=2)
PrettyPrinted(v) == Dumps(v, 0)

\* how a call ends: it returns the pair (info, error), or an exception leaves it
Return(info, error) == [raised |-> FALSE, info |-> info, error |-> error]
Raise(msg) == [raised |-> TRUE, msg |-> msg]

\* the empty dict
EmptyDict == JObj(<<>>)

\* AttributeError: 'T' object has no attribute 'name'
NoAttribute(v, name) == <<"'", PyTypeName(v), "' object has no attribute '", name, "'">>

EMPTY_COMPOSITION == "Empty composition provided"
MISSING_MCPSERVERS == "Missing 'mcpServers' key in composition"
NO_SERVERS == "No servers found in 'mcpServers' object"
EXCEPTION_ANALYZING == "Exception analyzing composition: "

\* server_type testing for "uv" anywhere in the command
ServerTypeContains(command) ==
    IF Contains(command, <<"u", "v">>) THEN "uv"
    ELSE IF command = <<"n", "p", "x">> THEN "npx"
    ELSE "unknown"

\* server_type of a command string
ServerType(command) ==
    IF EndsWith(command, <<"u", "v">>) THEN "uv"
    ELSE IF command = <<"n", "p", "x">> THEN "npx"
    ELSE "unknown"

\* command.endswith("uv") ... return {...}, None
Classify(server_name, server_info, command) ==
    IF command.t # "str" THEN Raise(NoAttribute(command, "endswith"))
    ELSE Return([server |-> server_name,
                 server_type |-> ServerType(command.v),
                 command |-> command,
                 args |-> DictGetDefault(server_info.v, KEY_ARGS, JArr(<<>>))],
                None)

\* the body of the for loop, for the first item
FirstServer(server_name, server_info) ==
    IF server_info.t # "obj" THEN Raise(NoAttribute(server_info, "get"))
    ELSE Classify(server_name, server_info,
                  DictGetDefault(server_info.v, KEY_COMMAND, JStr(<<>>)))

\* ForServers reporting an empty "mcpServers" object with the message of the missing key
ForServersSameMessage(composition, servers) ==
    IF servers.t # "obj" THEN Raise(NoAttribute(servers, "items"))
    ELSE IF servers.v # <<>> THEN FirstServer(servers.v[1].k, servers.v[1].v)
    ELSE Return(EmptyDict, [error_message |-> <<MISSING_MCPSERVERS>>,
                            json_config |-> PrettyPrinted(composition)])

\* ForServers keeping the last entry of the loop instead of returning at the first
ForServersLast(composition, servers) ==
    IF servers.t # "obj" THEN Raise(NoAttribute(servers, "items"))
    ELSE IF servers.v # <<>>
    THEN FirstServer(servers.v[Len(servers.v)].k, servers.v[Len(servers.v)].v)
    ELSE Return(EmptyDict, [error_message |-> <<NO_SERVERS>>,
                            json_config |-> PrettyPrinted(composition)])

\* ForServers returning no error for an "mcpServers" object without entries
ForServersSilent(composition, servers) ==
    IF servers.t # "obj" THEN Raise(NoAttribute(servers, "items"))
    ELSE IF servers.v # <<>> THEN FirstServer(servers.v[1].k, servers.v[1].v)
    ELSE Return(EmptyDict, None)

\* for server_name, server_info in servers.items(): ..., and what follows the loop
ForServers(composition, servers) ==
    IF servers.t # "obj" THEN Raise(NoAttribute(servers, "items"))
    ELSE IF servers.v # <<>> THEN FirstServer(servers.v[1].k, servers.v[1].v)
    ELSE Return(EmptyDict, [error_message |-> <<NO_SERVERS>>,
                            json_config |-> PrettyPrinted(composition)])

\* the try block
TryBlock(composition) ==
    IF ~Truthy(composition)
    THEN Return(EmptyDict, [error_message |-> <<EMPTY_COMPOSITION>>])
    ELSE IF composition.t \in {"lit", "num"}
    THEN Raise(<<"argument of type '", PyTypeName(composition), "' is not iterable">>)
    ELSE IF ~PyIn(KEY_MCPSERVERS, composition)
    THEN Return(EmptyDict, [error_message |-> <<MISSING_MCPSERVERS>>,
                            json_config |-> PrettyPrinted(composition)])
    ELSE IF composition.t = "arr"
    THEN Raise(<<"list indices must be integers or slices, not str">>)
    ELSE IF composition.t = "str"
    THEN Raise(<<"string indices must be integers, not 'str'">>)
    ELSE ForServers(composition, DictGet(composition.v, KEY_MCPSERVERS))

\* the try block without a handler: an exception leaves the function
ExceptionUncaught(composition, outcome) == outcome

\* except Exception as e: return {}, error_details
ExceptException(composition, outcome) ==
    IF outcome.raised
    THEN Return(EmptyDict,
                [error_message |-> <<EXCEPTION_ANALYZING>> \o outcome.msg,
                 json_config |-> IF Truthy(composition) THEN PrettyPrinted(composition)
                                 ELSE <<"N", "o", "n", "e">>])
    ELSE outcome

GetCompositionInfo(composition) == ExceptException(composition, TryBlock(composition))

-----------------------------------------------------------------------------
(* scan_repo_for_mcp_composition *)

REPO_PATH == "repo"

\* the MIME test skipping the files whose type is not determined as well
IsSkippedMimeOrNone(mime_type) ==
    ~(mime_type \in {"text/plain", "text/markdown"} \/ mime_type = "application/json")

\* mime_type is not None and not (mime_type.startswith('text/') or mime_type == 'application/json')
IsSkippedMime(mime_type) ==
    /\ mime_type # "None"
    /\ ~(mime_type \in {"text/plain", "text/markdown"} \/ mime_type = "application/json")

\* str(e) of a decoder's exception
ExcStr(e) == <<e.msg, ": char ", ToString(e.pos)>>

\* the error of the bracket-counting loop
UnclosedError(path, stripped_content, start) ==
    [repo_path |-> REPO_PATH,
     filename |-> path,
     json_config |-> PySliceFrom(stripped_content, start),
     error_message |-> <<"Malformed JSON: Unclosed brackets in file">>]

\* the parse-failure error carrying the extracted fragment in place of the file's text
ParseErrorConfigFragment(original_content, json_str) == json_str

\* which text the parse-failure error carries: original_content
ParseErrorConfig(original_content, json_str) == original_content

\* the error of the two failed decoding attempts
ParseError(path, original_content, json_str, e) ==
    [repo_path |-> REPO_PATH,
     filename |-> path,
     json_config |-> ParseErrorConfig(original_content, json_str),
     error_message |-> <<"Failed to parse MCP composition JSON: ">> \o ExcStr(e)]

\* the second attempt made whatever the first one returned
NeedsRawAttemptAlways(strict) == TRUE

\* whether the second attempt runs after the first one returned strict
NeedsRawAttempt(strict) == ~strict.ok

\* the outcome of decoding: the composition or the exception, and the decoder calls made
Decoded(result, calls) ==
    [ok |-> result.ok,
     val |-> IF result.ok THEN result.val ELSE None,
     exc |-> result,
     calls |-> calls]

StrictCall(json_str) == [fn |-> "json.loads", arg |-> json_str]
RawCall(json_str) == [fn |-> "ast.literal_eval", arg |-> json_str]

\* mcp_composition = json.loads(raw_str), or the except clause
DecodeRaw(json_str, raw_str) ==
    Decoded(JsonLoads(raw_str),
            <<StrictCall(json_str), RawCall(json_str), StrictCall(raw_str)>>)

\* raw_str = ast.literal_eval(...), or the except clause
AfterLiteralEval(json_str, raw) ==
    IF raw.ok THEN DecodeRaw(json_str, raw.val)
    ELSE Decoded(raw, <<StrictCall(json_str), RawCall(json_str)>>)

\* the try statement around json.loads(json_str), strict being what json.loads did
AfterStrict(json_str, strict) ==
    IF NeedsRawAttempt(strict) THEN AfterLiteralEval(json_str, LiteralEval(json_str))
    ELSE Decoded(strict, <<StrictCall(json_str)>>)

\* try json.loads(json_str); on JSONDecodeError, json.loads(ast.literal_eval(...))
DecodeComposition(json_str) == AfterStrict(json_str, JsonLoads(json_str))

NotDecoded == [ok |-> FALSE, val |-> None, exc |-> Fail("", 0), calls |-> <<>>]

\* what the loop body finds in one file's content, as far as it does not depend on the
\* error recorded before: the stripped content, whether a marker is in it, whether matching
\* was entered, the start offset, whether the brackets closed and where, the extracted
\* string and the decoding of it
Finding(stripped, marker, enters, start, closed, end, json_str, decoded) ==
    [stripped |-> stripped, marker |-> marker, enters |-> enters, start |-> start,
     closed |-> closed, end |-> end, json_str |-> json_str, decoded |-> decoded]

\* the start offset left at the marker
ShiftedStartUnmoved(start) == start

\* the start offset when a brace stands before the marker
ShiftedStart(start) == start - 1

\* json_str = stripped_content[start:end + 1] and the decoding of it
Extract(stripped_content, start, end, json_str) ==
    Finding(stripped_content, TRUE, TRUE, start, TRUE, end, json_str,
            DecodeComposition(json_str))

\* after the while loop, m being where it stopped
AfterMatch(stripped_content, start, m) ==
    IF m.closed
    THEN Extract(stripped_content, start, m.end,
                 PySlice(stripped_content, start, m.end + 1))
    ELSE Finding(stripped_content, TRUE, TRUE, start, FALSE, m.end, <<>>, NotDecoded)

\* if stripped_content[start - 1] == '{': start -= 1 and the matching follows
AfterFind(stripped_content, start) ==
    IF start # -1 /\ PrecededByBrace(stripped_content, start)
    THEN AfterMatch(stripped_content, ShiftedStart(start),
                    MatchBrackets(stripped_content, ShiftedStart(start), 1, 0))
    ELSE Finding(stripped_content, TRUE, FALSE, start, FALSE, start, <<>>, NotDecoded)

\* if a marker is in stripped_content: find it
AfterStrip(stripped_content) ==
    IF HasMarker(stripped_content)
    THEN AfterFind(stripped_content, MarkerStart(stripped_content))
    ELSE Finding(stripped_content, FALSE, FALSE, -1, FALSE, -1, <<>>, NotDecoded)

Locate(content) == AfterStrip(StripWhitespace(content))

\* Locate of every file text of FileSet
Located == [f \in FileSet |-> Locate(ContentOf(f))]

\* should_scan_repository_for_GHAS_alerts is not called
GhasIdle ==
    /\ ghas_properties = <<>>
    /\ ghas_threshold = 0
    /\ ghas_return = None

\* generate_report is not called
ReportIdle ==
    /\ repo_properties = <<>>
    /\ ci_env = None
    /\ json_file = None

\* the functions of the group secret are not running
SecretIdle ==
    /\ secret_alerts = <<>>
    /\ secret_api = "none"
    /\ secret_return = None

\* the functions of the group fork are not running
ForkIdle ==
    /\ fork_pc = "idle"
    /\ all_server_repos = <<>>
    /\ target_org_repos = {}
    /\ num_to_process = 0
    /\ url_idx = 0
    /\ processed_repo_count = 0
    /\ processed_repos = {}
    /\ failed_forks = <<>>
    /\ skipped_non_fork_count = 0
    /\ failed_fork_count = 0
    /\ fork_requests = <<>>
    /\ ensure_return = None
    /\ process_return = None

\* the functions of the group alerts are not running
AlertsIdle ==
    /\ alerts_env = None
    /\ alerts_stored = <<>>
    /\ alerts_return = None

\* clone_repository is not running
CloneIdle ==
    /\ clone_pc = "idle"
    /\ attempt = 0
    /\ local_exists = FALSE
    /\ temp_exists = FALSE
    /\ tarball_exists = FALSE
    /\ tarball_bound = FALSE
    /\ api_results = <<>>
    /\ curl_results = <<>>
    /\ valid_results = <<>>
    /\ tar_results = <<>>
    /\ tar_targets = <<>>
    /\ clone_outcome = "none"

\* none of the functions outside the analysis is running
LaterIdle == CloneIdle /\ ReportIdle /\ SecretIdle /\ ForkIdle /\ AlertsIdle

\* main is not running
MainIdle ==
    /\ existing_repos = <<>>
    /\ github_token = FALSE
    /\ num_repos = 0
    /\ repo_idx = 0
    /\ scanned_repos = 0
    /\ skipped_repos = 0
    /\ failed_analysis_repos = <<>>
    /\ issues = <<>>
    /\ main_pc = "idle"

\* scan_repo_for_mcp_composition and get_composition_info are not running
ScanIdle ==
    /\ tree = <<>>
    /\ pc = "idle"
    /\ dirIdx = 0
    /\ fileIdx = 0
    /\ mcp_composition = None
    /\ error_details = None
    /\ opened = <<>>
    /\ matched = <<>>
    /\ parse_calls = <<>>
    /\ composition_arg = None
    /\ info_return = None

\* the analysis is not running
EarlierIdle == ScanIdle /\ MainIdle /\ GhasIdle

\* every function but one of the later groups is idle
OnlyCloneRuns == EarlierIdle /\ ReportIdle /\ SecretIdle /\ ForkIdle /\ AlertsIdle
OnlyReportRuns == EarlierIdle /\ CloneIdle /\ SecretIdle /\ ForkIdle /\ AlertsIdle
OnlySecretRuns == EarlierIdle /\ CloneIdle /\ ReportIdle /\ ForkIdle /\ AlertsIdle
OnlyForkRuns == EarlierIdle /\ CloneIdle /\ ReportIdle /\ SecretIdle /\ AlertsIdle
OnlyAlertsRuns == EarlierIdle /\ CloneIdle /\ ReportIdle /\ SecretIdle /\ ForkIdle




Init ==
    /\ tree \in TreeSet
    /\ pc = "walk"
    /\ dirIdx = 0
    /\ fileIdx = 0
    /\ mcp_composition = None
    /\ error_details = None
    /\ opened = <<>>
    /\ matched = <<>>
    /\ parse_calls = <<>>
    /\ composition_arg = None
    /\ info_return = None
    /\ MainIdle
    /\ GhasIdle
    /\ LaterIdle

\* the file the inner loop takes next, and its path
HasNextFile == pc = "files" /\ fileIdx < Len(tree[dirIdx])
NextFile == tree[dirIdx][fileIdx + 1]
NextPath == <<dirIdx, fileIdx + 1>>

\* for root, dirs, files in os.walk(local_repo_path): the next directory
NextDirectory ==
    /\ pc = "walk"
    /\ dirIdx < Len(tree)
    /\ dirIdx' = dirIdx + 1
    /\ fileIdx' = 0
    /\ pc' = "files"
    /\ UNCHANGED <<tree, mcp_composition, error_details, opened, matched, parse_calls>>
    /\ UNCHANGED otherVars

\* os.walk is exhausted: return mcp_composition, error_details
WalkExhausted ==
    /\ pc = "walk"
    /\ dirIdx = Len(tree)
    /\ pc' = "done"
    /\ UNCHANGED <<tree, dirIdx, fileIdx, mcp_composition, error_details, opened, matched,
                   parse_calls>>
    /\ UNCHANGED otherVars

\* a file whose MIME type is neither text nor JSON: continue
SkipNonTextFile ==
    /\ HasNextFile
    /\ IsSkippedMime(NextFile.mime)
    /\ fileIdx' = fileIdx + 1
    /\ UNCHANGED <<tree, pc, dirIdx, mcp_composition, error_details, opened, matched,
                   parse_calls>>
    /\ UNCHANGED otherVars

\* a file that cannot be read: log, continue
SkipUnreadableFile ==
    /\ HasNextFile
    /\ ~IsSkippedMime(NextFile.mime)
    /\ NextFile.read = "fail"
    /\ opened' = Append(opened, NextPath)
    /\ fileIdx' = fileIdx + 1
    /\ UNCHANGED <<tree, pc, dirIdx, mcp_composition, error_details, matched, parse_calls>>
    /\ UNCHANGED otherVars

\* the opens a readable file takes: one, or two when UTF-8 decoding fails
OpensOf(f, path) == IF f.read = "latin1" THEN <<path, path>> ELSE <<path>>

CanRead == HasNextFile /\ ~IsSkippedMime(NextFile.mime) /\ NextFile.read # "fail"

\* a file without a marker recorded as an error
ExamineNoMarkerRecording ==
    /\ CanRead
    /\ \E loc \in {Located[NextFile]} :
          /\ ~loc.marker
          /\ opened' = opened \o OpensOf(NextFile, NextPath)
          /\ error_details' = UnclosedError(NextPath, loc.stripped, 0)
          /\ fileIdx' = fileIdx + 1
          /\ UNCHANGED <<tree, pc, dirIdx, mcp_composition, matched, parse_calls>>
          /\ UNCHANGED otherVars

\* a file read without a marker in its stripped content
ExamineNoMarker ==
    /\ CanRead
    /\ \E loc \in {Located[NextFile]} :
          /\ ~loc.marker
          /\ opened' = opened \o OpensOf(NextFile, NextPath)
          /\ fileIdx' = fileIdx + 1
          /\ UNCHANGED <<tree, pc, dirIdx, mcp_composition, error_details, matched, parse_calls>>
          /\ UNCHANGED otherVars

\* a file with a marker before which no brace stands: nothing is done with it
ExamineMarkerWithoutBrace ==
    /\ CanRead
    /\ \E loc \in {Located[NextFile]} :
          /\ loc.marker
          /\ ~loc.enters
          /\ opened' = opened \o OpensOf(NextFile, NextPath)
          /\ fileIdx' = fileIdx + 1
          /\ UNCHANGED <<tree, pc, dirIdx, mcp_composition, error_details, matched, parse_calls>>
          /\ UNCHANGED otherVars

\* a file whose brackets do not close: the error is recorded and the inner loop goes on
ExamineUnclosed ==
    /\ CanRead
    /\ \E loc \in {Located[NextFile]} :
          /\ loc.enters
          /\ ~loc.closed
          /\ opened' = opened \o OpensOf(NextFile, NextPath)
          /\ matched' = Append(matched, NextPath)
          /\ error_details' = UnclosedError(NextPath, loc.stripped, loc.start)
          /\ mcp_composition' = None
          /\ fileIdx' = fileIdx + 1
          /\ UNCHANGED <<tree, pc, dirIdx, parse_calls>>
          /\ UNCHANGED otherVars

\* the decoder calls of one file, with the file's path
CallsOf(path, calls) ==
    [i \in 1..Len(calls) |-> [path |-> path, fn |-> calls[i].fn, arg |-> calls[i].arg]]

\* a file whose brackets close while no error is recorded: the extracted string is decoded,
\* the composition or the error is recorded, and the inner loop is left
ExamineLocated ==
    /\ CanRead
    /\ \E loc \in {Located[NextFile]} :
          /\ loc.enters
          /\ loc.closed
          /\ error_details = None
          /\ parse_calls' = parse_calls \o CallsOf(NextPath, loc.decoded.calls)
          /\ mcp_composition' = loc.decoded.val
          /\ error_details' = IF loc.decoded.ok THEN error_details
                              ELSE ParseError(NextPath, ContentOf(NextFile), loc.json_str,
                                              loc.decoded.exc)
          /\ opened' = opened \o OpensOf(NextFile, NextPath)
          /\ matched' = Append(matched, NextPath)
          /\ pc' = "check"
          /\ UNCHANGED <<tree, dirIdx, fileIdx>>
          /\ UNCHANGED otherVars

\* a file whose brackets close after an error was recorded: it is neither decoded nor does
\* it end the inner loop
ExamineLocatedAfterError ==
    /\ CanRead
    /\ \E loc \in {Located[NextFile]} :
          /\ loc.enters
          /\ loc.closed
          /\ error_details # None
          /\ opened' = opened \o OpensOf(NextFile, NextPath)
          /\ matched' = Append(matched, NextPath)
          /\ fileIdx' = fileIdx + 1
          /\ UNCHANGED <<tree, pc, dirIdx, mcp_composition, error_details, parse_calls>>
          /\ UNCHANGED otherVars

\* the inner loop has taken every file of the directory
EndOfFiles ==
    /\ pc = "files"
    /\ fileIdx = Len(tree[dirIdx])
    /\ pc' = "check"
    /\ UNCHANGED <<tree, dirIdx, fileIdx, mcp_composition, error_details, opened, matched,
                   parse_calls>>
    /\ UNCHANGED otherVars

\* if mcp_composition is not None or error_details is not None: break
FoundOrError == mcp_composition # None \/ error_details # None

LeaveWalk ==
    /\ pc = "check"
    /\ FoundOrError
    /\ pc' = "done"
    /\ UNCHANGED <<tree, dirIdx, fileIdx, mcp_composition, error_details, opened, matched,
                   parse_calls>>
    /\ UNCHANGED otherVars

ContinueWalk ==
    /\ pc = "check"
    /\ ~FoundOrError
    /\ pc' = "walk"
    /\ UNCHANGED <<tree, dirIdx, fileIdx, mcp_composition, error_details, opened, matched,
                   parse_calls>>
    /\ UNCHANGED otherVars

Next ==
    \/ NextDirectory
    \/ WalkExhausted
    \/ SkipNonTextFile
    \/ SkipUnreadableFile
    \/ ExamineNoMarker
    \/ ExamineMarkerWithoutBrace
    \/ ExamineUnclosed
    \/ ExamineLocated
    \/ ExamineLocatedAfterError
    \/ EndOfFiles
    \/ LeaveWalk
    \/ ContinueWalk

Spec == Init /\ [][Next]_vars

-----------------------------------------------------------------------------
(* get_composition_info applied to a value: the inputs and the call          *)

\* the greatest number of entries of an "mcpServers" object among the inputs
MaxServers == 2

\* the values of "command" among the inputs, None for an entry without the key
CommandOptions ==
    {None, JStr(<<>>), JStr(<<"u", "v">>), JStr(<<"n", "p", "x">>),
     JStr(<<"n", "o", "d", "e">>), JStr(<<"u", "v", "x">>), JStr(<<"/", "a", "/", "u", "v">>),
     JNum(1)}

\* the values of "args" among the inputs, None for an entry without the key
ArgsOptions == {None, JArr(<<JStr(<<"-", "y">>)>>), JStr(<<"s">>)}

\* the pair of a key, or no pair when the value is absent
OptionalPair(key, v) == IF v = None THEN <<>> ELSE <<[k |-> key, v |-> v]>>

\* the entries of "mcpServers" among the inputs: mappings and other values
ServerInfos ==
    {JObj(OptionalPair(KEY_COMMAND, c) \o OptionalPair(KEY_ARGS, a)) :
        c \in CommandOptions, a \in ArgsOptions}
    \cup {JObj(OptionalPair(KEY_ARGS, JArr(<<>>)) \o OptionalPair(KEY_COMMAND, JStr(<<"u", "v">>)))}
    \cup {JLit("null"), JStr(<<"u", "v">>), JArr(<<>>)}

\* the names of servers: MaxServers + 1 of them
ServerNames == {<<"s", ToString(i)>> : i \in 0..MaxServers}

\* the "mcpServers" objects of up to MaxServers entries with distinct names, in any order
ServersOfLength(n) ==
    {JObj([i \in 1..n |-> [k |-> names[i], v |-> infos[i]]]) :
        names \in {ns \in [1..n -> ServerNames] : \A i, j \in 1..n : ns[i] = ns[j] => i = j},
        infos \in [1..n -> ServerInfos]}

ServersSet == UNION {ServersOfLength(n) : n \in 0..MaxServers}

\* a key of an input that is not "mcpServers"
KEY_OTHER == <<"o", "t", "h", "e", "r">>

\* the inputs: falsy values, values that are not mappings, mappings without the key,
\* with a value of the key that is not a mapping, and with the "mcpServers" objects
Compositions ==
    {None, JObj(<<>>), JArr(<<>>), JStr(<<>>), JNum(0), JLit("false")}
    \cup {JLit("true"), JNum(1), JArr(<<JStr(KEY_MCPSERVERS)>>), JArr(<<JStr(KEY_OTHER)>>),
          JStr(KEY_OTHER), JStr(<<"x", " ">> \o KEY_MCPSERVERS)}
    \cup {JObj(<<[k |-> KEY_OTHER, v |-> JNum(1)]>>),
          JObj(<<[k |-> KEY_OTHER, v |-> JStr(<<"a", "\"", "\n">>)]>>)}
    \cup {JObj(<<[k |-> KEY_MCPSERVERS, v |-> v]>>) :
             v \in {JLit("null"), JArr(<<>>), JStr(KEY_OTHER), JNum(1)}}
    \cup {JObj(<<[k |-> KEY_MCPSERVERS, v |-> servers]>>) : servers \in ServersSet}
    \cup {JObj(<<[k |-> KEY_OTHER, v |-> JNum(1)], [k |-> KEY_MCPSERVERS, v |-> servers]>>) :
             servers \in ServersOfLength(1)}

\* before the call of get_composition_info on an input; no scan is running
InfoInit ==
    /\ composition_arg \in Compositions
    /\ info_return = None
    /\ tree = <<>>
    /\ pc = "call"
    /\ dirIdx = 0
    /\ fileIdx = 0
    /\ mcp_composition = None
    /\ error_details = None
    /\ opened = <<>>
    /\ matched = <<>>
    /\ parse_calls = <<>>
    /\ MainIdle
    /\ GhasIdle
    /\ LaterIdle

\* runtime, analysis_error = get_composition_info(composition)
CallGetCompositionInfo ==
    /\ pc = "call"
    /\ info_return' = GetCompositionInfo(composition_arg)
    /\ pc' = "returned"
    /\ UNCHANGED <<tree, dirIdx, fileIdx, mcp_composition, error_details, opened, matched,
                   parse_calls, composition_arg>>
    /\ UNCHANGED <<mainVars, ghasVars, laterVars>>

InfoNext == CallGetCompositionInfo

InfoSpec == InfoInit /\ [][InfoNext]_vars

-----------------------------------------------------------------------------
(* The two stages together: main hands the composition the scan returned to  *)
(* get_composition_info.                                                     *)

\* elif composition: runtime, analysis_error = get_composition_info(composition)
InterpretComposition ==
    /\ pc = "done"
    /\ error_details = None
    /\ mcp_composition # None
    /\ Truthy(mcp_composition)
    /\ composition_arg' = mcp_composition
    /\ info_return' = GetCompositionInfo(mcp_composition)
    /\ pc' = "returned"
    /\ UNCHANGED <<tree, dirIdx, fileIdx, mcp_composition, error_details, opened, matched,
                   parse_calls>>
    /\ UNCHANGED <<mainVars, ghasVars, laterVars>>

StagesInit == Init \/ InfoInit

StagesNext == Next \/ InterpretComposition \/ CallGetCompositionInfo

StagesSpec == StagesInit /\ [][StagesNext]_vars

-----------------------------------------------------------------------------
(* Properties of the scan *)

Range(seq) == {seq[i] : i \in DOMAIN seq}

\* the file at a path of the walked tree
FileAt(path) == tree[path[1]][path[2]]

\* scan_repo_for_mcp_composition has returned (mcp_composition, error_details)
Done == pc = "done"

\* the files the scan reads, and the stripped text of each
Readable == {f \in FileSet : ~IsSkippedMime(f.mime) /\ f.read # "fail"}
Stripped == [f \in FileSet |-> StripWhitespace(ContentOf(f))]

\* the files whose stripped text holds neither marker at any offset
MarkerFree ==
    {f \in FileSet : \A i \in 0..Len(Stripped[f]) :
        /\ ~OccursAt(Stripped[f], MARKER_MCPSERVERS, i)
        /\ ~OccursAt(Stripped[f], MARKER_MCP_SERVERS, i)}

\* the tree holds the one file that is read, of the named document
OnlyFileIs(doc) ==
    /\ Len(tree) = 1
    /\ Len(tree[1]) = 1
    /\ tree[1][1] \in Readable
    /\ tree[1][1].doc = doc

\* the first file of the walk exists and is read
FirstFileRead == tree[1] # <<>> /\ tree[1][1] \in Readable

\* what each file's extracted string decodes to: strictly, and at the second attempt
StrictOf == [f \in FileSet |-> JsonLoads(Located[f].json_str)]
RawOf == [f \in FileSet |-> LiteralEval(Located[f].json_str)]
RepairOf == [f \in FileSet |-> IF RawOf[f].ok THEN JsonLoads(RawOf[f].val) ELSE RawOf[f]]

FAILED_TO_PARSE == "Failed to parse MCP composition JSON: "
UNCLOSED_BRACKETS == "Malformed JSON: Unclosed brackets in file"

\* C1: once a file has yielded a located composition or the malformed-bracket error (the
\* brace matching ran on it), no later file is opened or matched, and what is returned is
\* that first file's outcome
C1_FirstOutcomeWins ==
    matched # <<>> =>
        /\ opened[Len(opened)] = matched[1]
        /\ Len(matched) = 1
        /\ Done =>
            /\ error_details # None => error_details.filename = matched[1]
            /\ mcp_composition # None => parse_calls[1].path = matched[1]

\* the offset matching starts from as the Locator is described: the marker's offset, moved
\* back by one when the character before it is a brace
ClaimedStart(s) ==
    IF MarkerStart(s) >= 1 /\ At(s, MarkerStart(s) - 1) = "{"
    THEN MarkerStart(s) - 1 ELSE MarkerStart(s)

\* the number of offsets in a..b at which ch stands in s
Count(s, ch, a, b) == Cardinality({i \in a..b : At(s, i) = ch})

\* the brace count, 1 at start, is at no later offset of s back at zero
NeverCloses(s, start) ==
    \A e \in (start + 1)..(Len(s) - 1) :
        1 + Count(s, "{", start + 1, e) # Count(s, "}", start + 1, e)

\* the read files with a marker whose brace count never returns to zero
UnclosedFiles ==
    {f \in Readable \ MarkerFree : NeverCloses(Stripped[f], ClaimedStart(Stripped[f]))}

\* C2: when the first file of the walk has a marker and a brace count that never returns
\* to zero, the scan returns (None, error) with the unclosed-brackets message, that file's
\* path and the stripped content from the start offset on
C2_UnclosedReported ==
    (Done /\ FirstFileRead /\ tree[1][1] \in UnclosedFiles) =>
        /\ mcp_composition = None
        /\ error_details =
              [repo_path |-> REPO_PATH,
               filename |-> <<1, 1>>,
               json_config |-> PySliceFrom(Stripped[tree[1][1]],
                                           ClaimedStart(Stripped[tree[1][1]])),
               error_message |-> <<UNCLOSED_BRACKETS>>]

\* the paths of the files the scan must open: all but those skipped for their MIME type
PathsToOpen ==
    UNION {{<<d, i>> : i \in {j \in DOMAIN tree[d] : ~IsSkippedMime(tree[d][j].mime)}} :
              d \in DOMAIN tree}

\* C3: a file with neither marker in its stripped content is not matched, not decoded and
\* not named by an error; a tree whose files all are such is walked to its end and
\* returns (None, None)
C3_NoMarkerNoMatch ==
    /\ \A p \in Range(opened) : FileAt(p) \in MarkerFree =>
          /\ p \notin Range(matched)
          /\ \A i \in DOMAIN parse_calls : parse_calls[i].path # p
          /\ error_details # None => error_details.filename # p
    /\ (Done /\ \A d \in DOMAIN tree : \A i \in DOMAIN tree[d] : tree[d][i] \in MarkerFree) =>
          /\ mcp_composition = None
          /\ error_details = None
          /\ Range(opened) = PathsToOpen

\* two marker-free files were read and the scan returned (None, None)
C3_Witness ==
    /\ Done
    /\ Len(opened) = 2
    /\ \A p \in Range(opened) : FileAt(p) \in MarkerFree /\ FileAt(p) \in Readable
    /\ mcp_composition = None
    /\ error_details = None

\* the constructed span of n nested objects around the marker body, stripped
SynthSpan(n) == Rep("{", n) \o StripWhitespace(SynthBody) \o Rep("}", n)

\* as many opening as closing braces
Balanced(s) == Count(s, "{", 0, Len(s) - 1) = Count(s, "}", 0, Len(s) - 1)

\* the string extracted from a synthetic file is what the first decoder call was given
ExtractedFromSynth == parse_calls # <<>> /\ FileAt(parse_calls[1].path).doc = "Synth"

\* C4 as stated: for prefix + "{"*n + body + "}"*n + suffix the extracted string has
\* balanced braces and is the whole span of n nested objects
C4_WholeSpanExtracted ==
    ExtractedFromSynth =>
        /\ Balanced(parse_calls[1].arg)
        /\ parse_calls[1].arg = SynthSpan(FileAt(parse_calls[1].path).n)

\* C4: for prefix + "{"*n + body + "}"*n + suffix the extracted string has balanced braces
\* and is the innermost object, the one brace next to the marker and its match; it is the
\* whole span exactly when n = 1
C4_InnermostObjectExtracted ==
    ExtractedFromSynth =>
        /\ Balanced(parse_calls[1].arg)
        /\ parse_calls[1].arg = SynthSpan(1)
        /\ parse_calls[1].arg = SynthSpan(FileAt(parse_calls[1].path).n)
              <=> FileAt(parse_calls[1].path).n = 1

\* the innermost object was extracted from a synthetic file of two nested objects with a
\* prefix and a suffix, and decoded
C4_Witness ==
    /\ Done
    /\ ExtractedFromSynth
    /\ FileAt(parse_calls[1].path).n = 2
    /\ FileAt(parse_calls[1].path).pre
    /\ FileAt(parse_calls[1].path).suf
    /\ parse_calls[1].arg = SynthSpan(1)
    /\ mcp_composition # None

\* C5: on every read file with a marker the brace matching runs, whatever stands before the
\* marker, and the file yields a string handed to the decoder or the unclosed-brackets error
C5_MarkerAlwaysMatched ==
    \A p \in Range(opened) : (FileAt(p) \in Readable \ MarkerFree) =>
        /\ p \in Range(matched)
        /\ \/ \E i \in DOMAIN parse_calls : parse_calls[i].path = p
           \/ error_details # None /\ error_details.error_message = <<UNCLOSED_BRACKETS>>

\* what the scan returns for the object without defect
CleanComposition ==
    Located[File("CleanDoc", 0, FALSE, FALSE, "text/markdown", "utf8")].decoded.val

\* C6: the object with a comma after the last key of env is returned as the composition of
\* the comma-free object, with no error
C6_TrailingCommaParsed ==
    (Done /\ OnlyFileIs("TrailingCommaDoc")) =>
        /\ mcp_composition = CleanComposition
        /\ error_details = None

\* C7: the object with a // or a # comment after a value is returned as the composition of
\* the comment-free object, the value "a#//" unchanged, with no error
C7_CommentsParsed ==
    (Done /\ (OnlyFileIs("SlashCommentDoc") \/ OnlyFileIs("HashCommentDoc"))) =>
        /\ mcp_composition = CleanComposition
        /\ error_details = None

\* C8: the decoder calls are made on one file, the first is json.loads of the extracted
\* string; when it succeeds it is the only call and its result is the composition; the
\* raw-literal reinterpretation is called exactly when it fails, and when that attempt
\* succeeds its result is the composition
C8_StrictSuccessDecides ==
    parse_calls # <<>> =>
        /\ \A i \in DOMAIN parse_calls : parse_calls[i].path = parse_calls[1].path
        /\ parse_calls[1].fn = "json.loads"
        /\ parse_calls[1].arg = Located[FileAt(parse_calls[1].path)].json_str
        /\ StrictOf[FileAt(parse_calls[1].path)].ok =>
              /\ Len(parse_calls) = 1
              /\ mcp_composition = StrictOf[FileAt(parse_calls[1].path)].val
              /\ error_details = None
        /\ (\E i \in DOMAIN parse_calls : parse_calls[i].fn = "ast.literal_eval")
              <=> ~StrictOf[FileAt(parse_calls[1].path)].ok
        /\ (/\ ~StrictOf[FileAt(parse_calls[1].path)].ok
            /\ RepairOf[FileAt(parse_calls[1].path)].ok) =>
              /\ mcp_composition = RepairOf[FileAt(parse_calls[1].path)].val
              /\ error_details = None

\* the strict decoding succeeded, nothing else was called, and the scan returned its result
C8_Witness ==
    /\ Done
    /\ Len(parse_calls) = 1
    /\ StrictOf[FileAt(parse_calls[1].path)].ok
    /\ mcp_composition = StrictOf[FileAt(parse_calls[1].path)].val

C10_ConfigOnlyJson ==
    (error_details # None /\ error_details.error_message[1] = FAILED_TO_PARSE) =>
        /\ Contains(error_details.json_config, <<"m", "c", "p", "S", "e", "r", "v", "e", "r", "s">>)
        /\ PySlice(error_details.json_config, 0, 1) = <<"{">>
        /\ PySlice(error_details.json_config, -1, Len(error_details.json_config)) = <<"}">>
        /\ Len(error_details.json_config) < Len(ContentOf(FileAt(error_details.filename)))

-----------------------------------------------------------------------------
(* Properties of get_composition_info *)

\* get_composition_info has returned
Returned == pc = "returned"

\* the input is a mapping, with or without the key "mcpServers"
IsMapping(v) == v.t = "obj"
HasServersKey(v) == IsMapping(v) /\ DictHas(v.v, KEY_MCPSERVERS)
ServersOf(v) == DictGet(v.v, KEY_MCPSERVERS)

\* the input {"mcpServers": {}} and how json.dumps(..., indent=2) writes it
EmptyServersInput == JObj(<<[k |-> KEY_MCPSERVERS, v |-> JObj(<<>>)]>>)
EmptyServersText ==
    <<"{", "\n", " ", " ", "\"">> \o KEY_MCPSERVERS \o <<"\"", ":", " ", "{", "}", "\n", "}">>

\* the input {"other": 1} and how json.dumps(..., indent=2) writes it
NoKeyInput == JObj(<<[k |-> KEY_OTHER, v |-> JNum(1)]>>)
NoKeyText == <<"{", "\n", " ", " ", "\"">> \o KEY_OTHER \o <<"\"", ":", " ", "1", "\n", "}">>

\* the error returned has the message and, when given, the json_config
ReturnedError(message) ==
    /\ info_return.info = EmptyDict
    /\ info_return.error # None
    /\ info_return.error.error_message = <<message>>
CarriesConfig(text) ==
    /\ "json_config" \in DOMAIN info_return.error
    /\ info_return.error.json_config = text

HasFirstEntry(v) ==
    HasServersKey(v) /\ IsMapping(ServersOf(v)) /\ ServersOf(v).v # <<>>
FirstName(v) == ServersOf(v).v[1].k
FirstEntry(v) == ServersOf(v).v[1].v

\* the first entry is not a mapping; its command is not a string
EntryNotMapping(v) == HasFirstEntry(v) /\ ~IsMapping(FirstEntry(v))
CommandNotString(v) ==
    /\ HasFirstEntry(v) /\ IsMapping(FirstEntry(v))
    /\ DictHas(FirstEntry(v).v, KEY_COMMAND)
    /\ DictGet(FirstEntry(v).v, KEY_COMMAND).t # "str"

ReturnsComposition == mcp_composition # None
ReturnsError == error_details # None

\* what get_composition_info returned: a non-empty info and no error, or {} and an error
InfoOnly == info_return.info # EmptyDict /\ info_return.error = None
ErrorOnly == info_return.info = EmptyDict /\ info_return.error # None

\* a file the scan opened gave neither a composition nor an error: it could not be read, or
\* its text has no marker that a brace precedes
GaveNothing(f) == f.read = "fail" \/ ~Located[f].enters

CommandOf(entry) == DictGetDefault(entry.v, KEY_COMMAND, JStr(<<>>))
ArgsOf(entry) == DictGetDefault(entry.v, KEY_ARGS, JArr(<<>>))

\* the info returned names the first entry, its command and its args, without an error
FirstEntryReturned(v) ==
    /\ info_return.error = None
    /\ info_return.info # EmptyDict
    /\ info_return.info.server = FirstName(v)
    /\ info_return.info.command = CommandOf(FirstEntry(v))
    /\ info_return.info.args = ArgsOf(FirstEntry(v))

\* the first entry is a mapping whose command, if it has one, is a string
FirstEntryUsable(v) ==
    HasFirstEntry(v) /\ ~EntryNotMapping(v) /\ ~CommandNotString(v)

\* C14 as stated: for an "mcpServers" mapping with one or more entries get_composition_info
\* returns the name, command and args of the first entry in insertion order and no error,
\* whatever the later entries are.
C14_FirstEntryAlways ==
    (Returned /\ HasFirstEntry(composition_arg)) => FirstEntryReturned(composition_arg)

\* C14, amended: when the first entry in insertion order is a mapping whose command is absent
\* or a string, its name, command and args are returned with no error, whatever the later
\* entries are; when it is not, an error is returned, again whatever the later entries are.
C14_FirstUsableEntryReturned ==
    (Returned /\ HasFirstEntry(composition_arg)) =>
        IF FirstEntryUsable(composition_arg)
        THEN FirstEntryReturned(composition_arg)
        ELSE ErrorOnly

\* two entries, the second of which is not a mapping: the first is returned
C14_Witness ==
    /\ Returned
    /\ HasFirstEntry(composition_arg)
    /\ Len(ServersOf(composition_arg).v) = 2
    /\ ServersOf(composition_arg).v[2].v = JLit("null")
    /\ FirstName(composition_arg) = <<"s", "1">>
    /\ ServersOf(composition_arg).v[2].k = <<"s", "0">>
    /\ info_return.error = None
    /\ info_return.info.server = <<"s", "1">>
    /\ info_return.info.command = JStr(<<"/", "a", "/", "u", "v">>)
    /\ info_return.info.args = JArr(<<JStr(<<"-", "y">>)>>)

\* the command string of the first entry; the characters "u", "v" end it
UsedCommand(v) == CommandOf(FirstEntry(v)).v
EndsInUv(cs) == Len(cs) >= 2 /\ cs[Len(cs) - 1] = "u" /\ cs[Len(cs)] = "v"

\* C15: server_type is "uv" exactly when the command ends with "uv", "npx" exactly when it
\* equals "npx", "unknown" in every other case, "", "node" and "uvx" among them; an entry
\* without a command has the command "", an entry without args has the empty sequence.
C15_ServerTypeClassified ==
    (Returned /\ FirstEntryUsable(composition_arg)) =>
        /\ info_return.error = None
        /\ info_return.info.server_type \in {"uv", "npx", "unknown"}
        /\ info_return.info.server_type = "uv" <=> EndsInUv(UsedCommand(composition_arg))
        /\ info_return.info.server_type = "npx" <=>
              UsedCommand(composition_arg) = <<"n", "p", "x">>
        /\ UsedCommand(composition_arg) \in {<<>>, <<"n", "o", "d", "e">>, <<"u", "v", "x">>}
              => info_return.info.server_type = "unknown"
        /\ ~DictHas(FirstEntry(composition_arg).v, KEY_COMMAND) =>
              info_return.info.command = JStr(<<>>)
        /\ ~DictHas(FirstEntry(composition_arg).v, KEY_ARGS) =>
              info_return.info.args = JArr(<<>>)

\* an entry with the command "uvx" and no args
C15_Witness ==
    /\ Returned
    /\ FirstEntryUsable(composition_arg)
    /\ FirstEntry(composition_arg) = JObj(<<[k |-> KEY_COMMAND, v |-> JStr(<<"u", "v", "x">>)]>>)
    /\ info_return.info.server_type = "unknown"
    /\ info_return.info.args = JArr(<<>>)

-----------------------------------------------------------------------------
(* Files the scan filters or cannot read *)

\* a file whose MIME type is determined and is neither text/* nor application/json
Filtered(f) ==
    f.mime # "None" /\ f.mime \notin {"text/plain", "text/markdown", "application/json"}

\* a file that cannot be read or decoded
Unreadable(f) == f.read = "fail"

\* the files of a tree, each with its path, and those of them neither filtered nor unreadable
Entries(t) == [d \in DOMAIN t |-> [i \in DOMAIN t[d] |-> [path |-> <<d, i>>, file |-> t[d][i]]]]
IsKept(entry) == ~Filtered(entry.file) /\ ~Unreadable(entry.file)
WithoutSkipped(dirs) == [d \in DOMAIN dirs |-> SelectSeq(dirs[d], IsKept)]

\* the pair the scan returns
Returns(composition, error) == [composition |-> composition, error |-> error]

\* the scan of the files of one directory, all of them read, from the i-th on
RECURSIVE ScanFiles(_, _, _)
ScanFiles(files, i, result) ==
    IF i > Len(files) THEN result
    ELSE IF ~Located[files[i].file].enters THEN ScanFiles(files, i + 1, result)
    ELSE IF ~Located[files[i].file].closed
    THEN ScanFiles(files, i + 1,
                   Returns(None, UnclosedError(files[i].path,
                                               Located[files[i].file].stripped,
                                               Located[files[i].file].start)))
    ELSE IF result.error # None THEN ScanFiles(files, i + 1, result)
    ELSE IF Located[files[i].file].decoded.ok
    THEN Returns(Located[files[i].file].decoded.val, None)
    ELSE Returns(None, ParseError(files[i].path, ContentOf(files[i].file),
                                  Located[files[i].file].json_str,
                                  Located[files[i].file].decoded.exc))

\* the scan of the directories from the d-th on
RECURSIVE ScanDirs(_, _)
ScanDirs(dirs, d) ==
    IF d > Len(dirs) THEN Returns(None, None)
    ELSE IF ScanFiles(dirs[d], 1, Returns(None, None)) # Returns(None, None)
    THEN ScanFiles(dirs[d], 1, Returns(None, None))
    ELSE ScanDirs(dirs, d + 1)

\* the paths the scan will not come to: those after the file or directory it stopped at
Reached(path) ==
    \/ path[1] < dirIdx
    \/ path[1] = dirIdx /\ path[2] <= fileIdx

\* C16: files that are filtered or unreadable do not affect the result of the scan: a file
\* whose MIME type is determined and is neither text/* nor application/json is never opened,
\* the scan returns what it returns on the tree without the filtered and the unreadable
\* files, and a file without a determinable MIME type that the scan comes to is opened.
C16_SkippedFilesNoEffect ==
    /\ \A p \in Range(opened) : ~Filtered(FileAt(p))
    /\ Done =>
          /\ Returns(mcp_composition, error_details) = ScanDirs(WithoutSkipped(Entries(tree)), 1)
          /\ \A d \in DOMAIN tree : \A i \in DOMAIN tree[d] :
                (tree[d][i].mime = "None" /\ (Reached(<<d, i>>) \/ ~FoundOrError))
                    => <<d, i>> \in Range(opened)

\* an unreadable file, then, in a second directory, a file with a composition: the unreadable
\* file is skipped and the composition is returned
C16_Witness ==
    /\ Done
    /\ Len(tree) = 2
    /\ Len(tree[1]) = 1
    /\ Unreadable(tree[1][1])
    /\ ~Filtered(tree[1][1])
    /\ opened = <<<<1, 1>>, <<2, 1>>>>
    /\ mcp_composition # None
    /\ error_details = None

-----------------------------------------------------------------------------
(* main: the loop over the repositories of the organisation *)

\* the greatest number of repositories of the organisation
MaxRepos == 2

\* what scan_repo_for_mcp_composition returns for a cloned repository: nothing found, a
\* composition with a server, a composition without servers, the error of the file
\* {"mcpServers":{ whose brackets do not close
ScanReturns ==
    {Returns(None, None),
     Returns(JObj(<<[k |-> KEY_MCPSERVERS,
                     v |-> JObj(<<[k |-> <<"s", "0">>,
                                   v |-> JObj(<<[k |-> KEY_COMMAND,
                                                 v |-> JStr(<<"n", "p", "x">>)]>>)]>>)]>>),
             None),
     Returns(JObj(<<[k |-> KEY_MCPSERVERS, v |-> JObj(<<>>)]>>), None),
     Returns(None,
             UnclosedError(<<1, 1>>, <<"{", "\"">> \o KEY_MCPSERVERS \o <<"\"", ":", "{">>, 0))}

\* a repository: whether scan_repository_for_alerts succeeds on it, how clone_repository ends
\* ("extracted"; "gave_up": it returns without a directory; "raises": the first call of
\* download_tarball_archive raises, and the finally clause reads tarball_file unbound), and
\* what the scan of the clone returns; os.walk of a directory that does not exist yields
\* nothing
Repository(alerts, clone, scan) == [alerts |-> alerts, clone |-> clone, scan |-> scan]

Repositories ==
    {Repository(FALSE, "extracted", Returns(None, None)),
     Repository(TRUE, "raises", Returns(None, None)),
     Repository(TRUE, "gave_up", Returns(None, None))}
    \cup {Repository(TRUE, "extracted", scan) : scan \in ScanReturns}

\* get_composition_info(composition) for a scan that returned a composition
InfoOf(scan) ==
    IF scan.composition # None THEN GetCompositionInfo(scan.composition)
    ELSE Return(EmptyDict, None)

MainInit ==
    /\ existing_repos \in UNION {[1..n -> Repositories] : n \in 0..MaxRepos}
    /\ github_token \in BOOLEAN
    /\ num_repos \in 1..MaxRepos
    /\ repo_idx = 0
    /\ scanned_repos = 0
    /\ skipped_repos = 0
    /\ failed_analysis_repos = <<>>
    /\ issues = <<>>
    /\ main_pc = "loop"
    /\ tree = <<>>
    /\ pc = "idle"
    /\ dirIdx = 0
    /\ fileIdx = 0
    /\ mcp_composition = None
    /\ error_details = None
    /\ opened = <<>>
    /\ matched = <<>>
    /\ parse_calls = <<>>
    /\ composition_arg = None
    /\ info_return = None
    /\ GhasIdle
    /\ LaterIdle

\* the loop takes the next repository; repo.name is its position in the list
TakesRepository ==
    main_pc = "loop" /\ repo_idx < Len(existing_repos) /\ scanned_repos < num_repos
Repo == existing_repos[repo_idx + 1]
RepoName == repo_idx + 1

\* create_issue(token_auth_gh, org, "mcp-security-scans", title, body, labels): one issue
\* for a title, none when an issue with the title exists
CreateIssue(created, name, title) ==
    IF \E i \in DOMAIN created : created[i].title = title THEN created
    ELSE Append(created, [repo |-> name, title |-> title])

\* if token_auth_gh: create_issue(...)
IssuesAfter(name, error_msg) ==
    IF github_token THEN CreateIssue(issues, name, <<"Failed analysis: ">> \o error_msg)
    ELSE issues

\* if scanned_repos >= args.num_repos: break
ReachScanLimit ==
    /\ main_pc = "loop"
    /\ repo_idx < Len(existing_repos)
    /\ scanned_repos >= num_repos
    /\ main_pc' = "summary"
    /\ UNCHANGED <<existing_repos, github_token, num_repos, repo_idx, scanned_repos,
                   skipped_repos, failed_analysis_repos, issues>>
    /\ UNCHANGED <<scanVars, infoVars, ghasVars, laterVars>>

\* the list of repositories is exhausted
LoopExhausted ==
    /\ main_pc = "loop"
    /\ repo_idx = Len(existing_repos)
    /\ main_pc' = "summary"
    /\ UNCHANGED <<existing_repos, github_token, num_repos, repo_idx, scanned_repos,
                   skipped_repos, failed_analysis_repos, issues>>
    /\ UNCHANGED <<scanVars, infoVars, ghasVars, laterVars>>

\* scan_repository_for_alerts returns no success: skipped_repos += 1
SkipRepository ==
    /\ TakesRepository
    /\ ~Repo.alerts
    /\ skipped_repos' = skipped_repos + 1
    /\ repo_idx' = repo_idx + 1
    /\ UNCHANGED <<existing_repos, github_token, num_repos, scanned_repos,
                   failed_analysis_repos, issues, main_pc>>
    /\ UNCHANGED <<scanVars, infoVars, ghasVars, laterVars>>

\* clone_repository raises: the exception leaves the loop, except Exception: sys.exit(1)
CloneRaises ==
    /\ TakesRepository
    /\ Repo.alerts
    /\ Repo.clone = "raises"
    /\ scanned_repos' = scanned_repos + 1
    /\ main_pc' = "exit1"
    /\ UNCHANGED <<existing_repos, github_token, num_repos, repo_idx, skipped_repos,
                   failed_analysis_repos, issues>>
    /\ UNCHANGED <<scanVars, infoVars, ghasVars, laterVars>>

\* if scan_error: the failure is recorded and an issue is filed
ScanFailed ==
    /\ TakesRepository
    /\ Repo.alerts
    /\ Repo.clone # "raises"
    /\ \E scan \in {Repo.scan} :
          /\ scan.error # None
          /\ failed_analysis_repos' =
                Append(failed_analysis_repos,
                       [name |-> RepoName, reason |-> scan.error.error_message,
                        file |-> scan.error.filename])
          /\ issues' = IssuesAfter(RepoName, scan.error.error_message)
    /\ scanned_repos' = scanned_repos + 1
    /\ repo_idx' = repo_idx + 1
    /\ UNCHANGED <<existing_repos, github_token, num_repos, skipped_repos, main_pc>>
    /\ UNCHANGED <<scanVars, infoVars, ghasVars, laterVars>>

\* elif composition: ... if analysis_error or not runtime: the failure is recorded and an
\* issue is filed
AnalysisFailed ==
    /\ TakesRepository
    /\ Repo.alerts
    /\ Repo.clone # "raises"
    /\ \E scan \in {Repo.scan}, info \in {InfoOf(Repo.scan)} :
          /\ scan.error = None
          /\ scan.composition # None
          /\ info.error # None
          /\ failed_analysis_repos' =
                Append(failed_analysis_repos,
                       [name |-> RepoName, reason |-> info.error.error_message])
          /\ issues' = IssuesAfter(RepoName, info.error.error_message)
    /\ scanned_repos' = scanned_repos + 1
    /\ repo_idx' = repo_idx + 1
    /\ UNCHANGED <<existing_repos, github_token, num_repos, skipped_repos, main_pc>>
    /\ UNCHANGED <<scanVars, infoVars, ghasVars, laterVars>>

\* elif composition: ... else: the runtime info is logged
RuntimeFound ==
    /\ TakesRepository
    /\ Repo.alerts
    /\ Repo.clone # "raises"
    /\ \E scan \in {Repo.scan}, info \in {InfoOf(Repo.scan)} :
          /\ scan.error = None
          /\ scan.composition # None
          /\ info.error = None
    /\ scanned_repos' = scanned_repos + 1
    /\ repo_idx' = repo_idx + 1
    /\ UNCHANGED <<existing_repos, github_token, num_repos, skipped_repos,
                   failed_analysis_repos, issues, main_pc>>
    /\ UNCHANGED <<scanVars, infoVars, ghasVars, laterVars>>

\* else: no MCP composition found
NoComposition ==
    /\ TakesRepository
    /\ Repo.alerts
    /\ Repo.clone # "raises"
    /\ \E scan \in {Repo.scan} :
          /\ scan.error = None
          /\ scan.composition = None
    /\ scanned_repos' = scanned_repos + 1
    /\ repo_idx' = repo_idx + 1
    /\ UNCHANGED <<existing_repos, github_token, num_repos, skipped_repos,
                   failed_analysis_repos, issues, main_pc>>
    /\ UNCHANGED <<scanVars, infoVars, ghasVars, laterVars>>

\* the summary is generated and written
WriteSummary ==
    /\ main_pc = "summary"
    /\ main_pc' = "done"
    /\ UNCHANGED <<existing_repos, github_token, num_repos, repo_idx, scanned_repos,
                   skipped_repos, failed_analysis_repos, issues>>
    /\ UNCHANGED <<scanVars, infoVars, ghasVars, laterVars>>

MainNext ==
    \/ ReachScanLimit
    \/ LoopExhausted
    \/ SkipRepository
    \/ CloneRaises
    \/ ScanFailed
    \/ AnalysisFailed
    \/ RuntimeFound
    \/ NoComposition
    \/ WriteSummary

MainSpec == MainInit /\ [][MainNext]_vars

-----------------------------------------------------------------------------
(* Properties of main *)

\* the repository fails: its clone raises or gives up, its scan returns an error, or
\* get_composition_info returns an error for its composition
RepositoryFails(r) ==
    r.alerts /\ (r.clone # "extracted" \/ r.scan.error # None \/ InfoOf(r.scan).error # None)

\* the entries of failed_analysis_repos for a repository
FailureEntries(name) ==
    {k \in DOMAIN failed_analysis_repos : failed_analysis_repos[k].name = name}

\* C17: in main a failure for one repository (an error of the scan, an error of
\* get_composition_info, a fault while cloning) is recorded as one entry of
\* failed_analysis_repos and the loop goes on: no failure ends the run before the remaining
\* repositories, up to the scan limit, are processed and the summary is written.
C17_FailureRecordedLoopGoesOn ==
    /\ main_pc # "exit1"
    /\ \A i \in 1..repo_idx :
          RepositoryFails(existing_repos[i]) => Cardinality(FailureEntries(i)) = 1
    /\ main_pc \in {"summary", "done"} =>
          repo_idx = Len(existing_repos) \/ scanned_repos >= num_repos

-----------------------------------------------------------------------------
(* should_scan_repository_for_GHAS_alerts (functions.py). A timestamp text   *)
(* is a sequence of tokens: whitespace characters, the ISO text of the       *)
(* instant d days before now, written ToString(d), the suffixes "Z" and      *)
(* "+00:00", and words that are no date.                                     *)

\* the greatest days_threshold of the calls
MaxThreshold == 2

\* the ages, in days before now, of the instants the timestamps name
Ages == (0 - 1)..(MaxThreshold + 1)

GHAS_STATUS_UPDATED == "GHAS_Status_Updated"

\* properties.get(key, default)
PropertyGet(properties, key, default) ==
    IF key \in DOMAIN properties THEN properties[key] ELSE default

\* str.strip(): leading and trailing whitespace removed
RECURSIVE StripLeft(_)
StripLeft(s) ==
    IF s # <<>> /\ Head(s) \in {" ", "\n", "\t"} THEN StripLeft(Tail(s)) ELSE s
RECURSIVE StripRight(_)
StripRight(s) ==
    IF s # <<>> /\ s[Len(s)] \in {" ", "\n", "\t"} THEN StripRight(SubSeq(s, 1, Len(s) - 1))
    ELSE s
Strip(s) == StripRight(StripLeft(s))

\* the token is the ISO text of an instant, and the age of that instant
IsDateTimeText(token) == \E d \in Ages : ToString(d) = token
AgeOfText(token) == CHOOSE d \in Ages : ToString(d) = token

\* what parsing gives: a datetime, naive or aware, or ValueError
ParsedTime(aware, age) == [ok |-> TRUE, aware |-> aware, age |-> age]
ValueError == [ok |-> FALSE, exc |-> "ValueError"]

\* datetime.datetime.fromisoformat(timestamp_str)
FromIsoFormat(timestamp_str) ==
    IF Len(timestamp_str) = 1 /\ IsDateTimeText(timestamp_str[1])
    THEN ParsedTime(FALSE, AgeOfText(timestamp_str[1]))
    ELSE IF /\ Len(timestamp_str) = 2
            /\ IsDateTimeText(timestamp_str[1])
            /\ timestamp_str[2] \in {"Z", "+00:00"}
    THEN ParsedTime(TRUE, AgeOfText(timestamp_str[1]))
    ELSE ValueError

\* timestamp_str.count(':'): two in the text of an instant, one in "+00:00"
RECURSIVE ColonCount(_)
ColonCount(s) ==
    IF s = <<>> THEN 0
    ELSE ColonCount(Tail(s)) + (IF IsDateTimeText(Head(s)) THEN 2
                                ELSE IF Head(s) = "+00:00" THEN 1 ELSE 0)

\* timestamp_str.replace('Z', '+00:00')
ReplaceZ(s) == [i \in DOMAIN s |-> IF s[i] = "Z" THEN "+00:00" ELSE s[i]]

\* the attempts that follow a failed fromisoformat
ParseStripped(timestamp_str) ==
    IF FromIsoFormat(timestamp_str).ok THEN FromIsoFormat(timestamp_str)
    ELSE IF timestamp_str # <<>> /\ timestamp_str[Len(timestamp_str)] = "Z"
    THEN FromIsoFormat(ReplaceZ(timestamp_str))
    ELSE IF (\A i \in DOMAIN timestamp_str : timestamp_str[i] # "+00:00")
            /\ ColonCount(timestamp_str) < 3
    THEN FromIsoFormat(timestamp_str \o <<"+00:00">>)
    ELSE ValueError

TESTING == <<"Testing">>

\* value == "..." for a string literal
IsText(value, cs) == value.t = "str" /\ value.v = cs

\* parse_timestamp(timestamp_value)
ParseTimestamp(timestamp_value) ==
    IF ~Truthy(timestamp_value) THEN ValueError
    ELSE IF IsText(timestamp_value, TESTING) THEN ValueError
    ELSE IF timestamp_value.t = "str" THEN ParseStripped(Strip(timestamp_value.v))
    ELSE ValueError

\* int(value) of a string of digits
RECURSIVE IntOfDigits(_, _)
IntOfDigits(cs, acc) ==
    IF cs = <<>> THEN acc
    ELSE IntOfDigits(Tail(cs),
                     10 * acc + (CHOOSE n \in 0..9 : ToString(n) = Head(cs)))

IsDigits(cs) == cs # <<>> /\ \A i \in DOMAIN cs : \E n \in 0..9 : ToString(n) = cs[i]

\* _parse_alert_count(value, alert_type): 0 for None and "None", -1 when int(value) fails
ParseAlertCount(value) ==
    IF value = None \/ IsText(value, <<"N", "o", "n", "e">>) THEN 0
    ELSE IF value.t = "num" THEN value.v
    ELSE IF value.t = "str" /\ IsDigits(value.v) THEN IntOfDigits(value.v, 0)
    ELSE 0 - 1

CODE_SEVERITIES ==
    <<"CodeAlerts_Critical", "CodeAlerts_High", "CodeAlerts_Medium", "CodeAlerts_Low">>
DEPENDENCY_SEVERITIES ==
    <<"DependencyAlerts_Critical", "DependencyAlerts_High", "DependencyAlerts_Moderate",
      "DependencyAlerts_Low">>

\* the completeness of a count with four severity properties
CheckSeverities(properties, count, required_properties) ==
    /\ count # 0 - 1
    /\ count > 0 => \A i \in DOMAIN required_properties :
                       required_properties[i] \in DOMAIN properties

\* _check_code_alerts_completeness(properties)
CheckCodeAlertsCompleteness(properties) ==
    CheckSeverities(properties,
                    ParseAlertCount(PropertyGet(properties, "CodeAlerts", JNum(0))),
                    CODE_SEVERITIES)

\* a SecretAlerts_By_Type that counts as a breakdown
HasTypeBreakdown(secret_alerts_by_type) ==
    /\ secret_alerts_by_type # None
    /\ ~IsText(secret_alerts_by_type, <<"N", "o", "n", "e">>)
    /\ ~IsText(secret_alerts_by_type, <<"{", "}">>)
    /\ ~IsText(secret_alerts_by_type, <<>>)

\* _check_secret_alerts_completeness(properties)
CheckSecretAlertsCompleteness(properties) ==
    /\ "SecretAlerts_Total" \in DOMAIN properties
    /\ ParseAlertCount(properties["SecretAlerts_Total"]) # 0 - 1
    /\ ParseAlertCount(properties["SecretAlerts_Total"]) > 0 =>
          HasTypeBreakdown(PropertyGet(properties, "SecretAlerts_By_Type", None))

\* _check_dependency_alerts_completeness(properties)
CheckDependencyAlertsCompleteness(properties) ==
    CheckSeverities(properties,
                    ParseAlertCount(PropertyGet(properties, "DependencyAlerts", JNum(0))),
                    DEPENDENCY_SEVERITIES)

\* the function returns a truth value
ReturnsBool(b) == [raised |-> FALSE, value |-> b]

\* datetime.datetime.now() - last_scanned_time > datetime.timedelta(days=days_threshold),
\* and the checks of the else branch; the difference of a naive and an aware datetime is a
\* TypeError
AfterParse(properties, days_threshold, last_scanned_time) ==
    IF ~last_scanned_time.ok THEN Raise(last_scanned_time.exc)
    ELSE IF last_scanned_time.aware THEN Raise("TypeError")
    ELSE IF last_scanned_time.age > days_threshold THEN ReturnsBool(TRUE)
    ELSE IF ~CheckCodeAlertsCompleteness(properties) THEN ReturnsBool(TRUE)
    ELSE IF ~CheckSecretAlertsCompleteness(properties) THEN ReturnsBool(TRUE)
    ELSE IF ~CheckDependencyAlertsCompleteness(properties) THEN ReturnsBool(TRUE)
    ELSE ReturnsBool(FALSE)

\* a handler for ValueError alone
ExceptValueErrorOnly(outcome) ==
    IF outcome.raised /\ outcome.msg = "ValueError" THEN ReturnsBool(TRUE) ELSE outcome

\* except (ValueError, TypeError): return True
ExceptValueOrTypeError(outcome) ==
    IF outcome.raised /\ outcome.msg \in {"ValueError", "TypeError"} THEN ReturnsBool(TRUE)
    ELSE outcome

\* the body after last_scanned = properties.get(timestamp_property)
ShouldScanFor(properties, days_threshold, last_scanned) ==
    IF ~Truthy(last_scanned) THEN ReturnsBool(TRUE)
    ELSE IF IsText(last_scanned, TESTING) THEN ReturnsBool(TRUE)
    ELSE ExceptValueOrTypeError(AfterParse(properties, days_threshold,
                                           ParseTimestamp(last_scanned)))

\* should_scan_repository_for_GHAS_alerts(properties, "GHAS_Status_Updated", days_threshold)
ShouldScanRepositoryForGHASAlerts(properties, days_threshold) ==
    ShouldScanFor(properties, days_threshold,
                  PropertyGet(properties, GHAS_STATUS_UPDATED, None))

-----------------------------------------------------------------------------
(* The calls of should_scan_repository_for_GHAS_alerts *)

\* the text of the instant d days before now
InstantText(d) == <<ToString(d)>>

\* the timestamps that parse to a naive datetime, with and without whitespace around them
PlainTimestamps ==
    {JStr(InstantText(d)) : d \in Ages}
    \cup {JStr(<<" ">> \o InstantText(d)) : d \in {0, MaxThreshold + 1}}
    \cup {JStr(InstantText(d) \o <<"\n">>) : d \in {0, MaxThreshold + 1}}
    \cup {JStr(<<" ">> \o InstantText(d) \o <<" ">>) : d \in {0, MaxThreshold + 1}}

\* the other values of the timestamp property: with a UTC suffix, no date, empty, "Testing",
\* not a string
OtherTimestamps ==
    {JStr(InstantText(0) \o <<"Z">>), JStr(InstantText(0) \o <<"+00:00">>),
     JStr(InstantText(MaxThreshold + 1) \o <<"Z">>),
     JStr(<<"not-a-timestamp">>), JStr(<<"not-a-timestamp", "Z">>), JStr(<<" ">>),
     JStr(TESTING), JStr(<<" ">> \o TESTING), JStr(<<>>),
     JNum(123), JNum(0), JArr(<<JNum(1)>>), None}

\* a key that the mapping does not have
Absent == [t |-> "absent"]

\* a mapping with one key, or none when the key is absent
Property(key, value) == IF value = Absent THEN <<>> ELSE key :> value

\* the severity properties at the positions kept, each with the value 1
Severities(names, kept) == [n \in {names[i] : i \in kept} |-> JNum(1)]

\* which of the four severity properties are present: all, all but the first, all but the
\* last, none
KeptSeverities == {1..4, 2..4, 1..3, {}}

\* the values of a count
CountValues ==
    {Absent, JNum(0), JNum(5), JStr(<<"5">>), JStr(<<"N", "o", "n", "e">>),
     JStr(<<"a", "b", "c">>), None}

\* the values of SecretAlerts_By_Type
ByTypeValues ==
    {Absent, JStr(<<"{", "}">>), JStr(<<"N", "o", "n", "e">>), JStr(<<>>),
     JStr(<<"{", "t", ":", "3", "}">>), None}

\* the alert properties of a repository
AlertProperties ==
    {Property("CodeAlerts", code) @@ Severities(CODE_SEVERITIES, codeKept)
       @@ Property("SecretAlerts_Total", secret) @@ Property("SecretAlerts_By_Type", byType)
       @@ Property("DependencyAlerts", dep) @@ Severities(DEPENDENCY_SEVERITIES, depKept) :
        code \in CountValues, codeKept \in {1..4, 2..4, {}},
        secret \in CountValues, byType \in ByTypeValues,
        dep \in {Absent, JNum(0), JNum(4)}, depKept \in {1..4, 1..3}}

\* alert properties with every count positive and every breakdown present, and with every
\* count zero
CompleteAlerts ==
    Property("CodeAlerts", JNum(5)) @@ Severities(CODE_SEVERITIES, 1..4)
    @@ Property("SecretAlerts_Total", JNum(3))
    @@ Property("SecretAlerts_By_Type", JStr(<<"{", "t", ":", "3", "}">>))
    @@ Property("DependencyAlerts", JNum(4)) @@ Severities(DEPENDENCY_SEVERITIES, 1..4)
ZeroAlerts ==
    Property("CodeAlerts", JNum(0)) @@ Property("SecretAlerts_Total", JNum(0))
    @@ Property("DependencyAlerts", JNum(0))

\* the arguments properties: every timestamp with complete alert data, the timestamps at and
\* within the threshold with all the alert properties
PropertiesSet ==
    {Property(GHAS_STATUS_UPDATED, ts) @@ alerts :
        ts \in PlainTimestamps \cup OtherTimestamps \cup {Absent},
        alerts \in {CompleteAlerts, ZeroAlerts, <<>>}}
    \cup {Property(GHAS_STATUS_UPDATED, JStr(InstantText(1))) @@ alerts :
            alerts \in AlertProperties}

GhasInit ==
    /\ ghas_properties \in PropertiesSet
    /\ ghas_threshold \in 1..MaxThreshold
    /\ ghas_return = None
    /\ tree = <<>>
    /\ pc = "idle"
    /\ dirIdx = 0
    /\ fileIdx = 0
    /\ mcp_composition = None
    /\ error_details = None
    /\ opened = <<>>
    /\ matched = <<>>
    /\ parse_calls = <<>>
    /\ composition_arg = None
    /\ info_return = None
    /\ MainIdle
    /\ LaterIdle

\* should_scan_repository_for_GHAS_alerts(properties, "GHAS_Status_Updated", days_threshold)
CallShouldScan ==
    /\ ghas_return = None
    /\ ghas_return' = ShouldScanRepositoryForGHASAlerts(ghas_properties, ghas_threshold)
    /\ UNCHANGED <<ghas_properties, ghas_threshold>>
    /\ UNCHANGED <<scanVars, infoVars, mainVars, laterVars>>

GhasNext == CallShouldScan

GhasSpec == GhasInit /\ [][GhasNext]_vars

-----------------------------------------------------------------------------
(* Properties of should_scan_repository_for_GHAS_alerts *)

\* the call has returned or raised
GhasCalled == ghas_return # None

\* the value of the timestamp property, Absent when the key is missing
LastScanned == PropertyGet(ghas_properties, GHAS_STATUS_UPDATED, Absent)

\* the text with whitespace before it, after it, or on both sides
Padded(text) ==
    {text, <<" ">> \o text, text \o <<"\n">>, <<" ">> \o text \o <<" ">>}

\* the timestamp names an instant without a UTC offset that is d days old
TimestampOfAge(d) == LastScanned.t = "str" /\ LastScanned.v \in Padded(InstantText(d))

\* the timestamp is within the threshold
WithinThreshold == \E d \in Ages : d <= ghas_threshold /\ TimestampOfAge(d)

\* the number the stored count stands for
StoredCount(key) == ParseAlertCount(ghas_properties[key])

\* the count is stored as a number, as 'None', or not at all
CountReadable(key) == key \in DOMAIN ghas_properties => StoredCount(key) >= 0

CountPositive(key) == key \in DOMAIN ghas_properties /\ StoredCount(key) > 0

\* one of the four severity properties is missing
SeverityMissing(names) == \E i \in DOMAIN names : names[i] \notin DOMAIN ghas_properties

\* SecretAlerts_By_Type is missing: no key, or the value None, 'None' or ''
ByTypeMissing ==
    \/ "SecretAlerts_By_Type" \notin DOMAIN ghas_properties
    \/ ghas_properties["SecretAlerts_By_Type"] = None
    \/ IsText(ghas_properties["SecretAlerts_By_Type"], <<"N", "o", "n", "e">>)
    \/ IsText(ghas_properties["SecretAlerts_By_Type"], <<>>)

\* the stored data is incomplete, in the cases the tests name
DataIncomplete ==
    \/ CountPositive("CodeAlerts") /\ SeverityMissing(CODE_SEVERITIES)
    \/ CountPositive("DependencyAlerts") /\ SeverityMissing(DEPENDENCY_SEVERITIES)
    \/ "SecretAlerts_Total" \notin DOMAIN ghas_properties
    \/ CountPositive("SecretAlerts_Total") /\ ByTypeMissing

\* every count is readable and no breakdown is missing
AllDataPresent ==
    /\ CountReadable("CodeAlerts")
    /\ CountReadable("SecretAlerts_Total")
    /\ CountReadable("DependencyAlerts")
    /\ ~DataIncomplete

ReturnedBool(b) == GhasCalled /\ ~ghas_return.raised /\ ghas_return.value = b

\* C18: with the timestamp within the threshold and all the alert data present, the
\* function returns False, also when SecretAlerts_Total is positive and
\* SecretAlerts_By_Type is "{}".
C18_RecentCompleteNotRescanned ==
    GhasCalled /\ WithinThreshold /\ AllDataPresent => ReturnedBool(FALSE)

\* the timestamp property is missing or empty
TimestampMissing == LastScanned \in {Absent, None, JStr(<<>>)}

\* the timestamp property is a string that is no timestamp
TimestampUnparsable ==
    LastScanned \in {JStr(<<"not-a-timestamp">>), JStr(<<"not-a-timestamp", "Z">>),
                     JStr(<<" ">>), JStr(<<" ">> \o TESTING)}

\* the timestamp property is a value that is no string
TimestampNotString == LastScanned \notin {Absent, None} /\ LastScanned.t # "str"

\* the timestamp names an instant more than days_threshold days old, with or without a UTC
\* suffix
OlderThanThreshold ==
    /\ LastScanned.t = "str"
    /\ \E d \in Ages : /\ d > ghas_threshold
                       /\ LastScanned.v \in Padded(InstantText(d))
                                            \cup {InstantText(d) \o <<"Z">>}

\* the alert data is one of the two complete sets
KnownComplete ==
    \E alerts \in {CompleteAlerts, ZeroAlerts} :
        ghas_properties = Property(GHAS_STATUS_UPDATED, LastScanned) @@ alerts

\* C19: the function returns True and does not raise when the timestamp property is
\* missing or empty, is "Testing", is a string that cannot be parsed, is no string, or is
\* older than days_threshold days; a valid timestamp with whitespace around it is parsed,
\* so that within the threshold and with complete data the function returns False.
C19_ScanWithoutUsableTimestamp ==
    GhasCalled =>
        /\ (\/ TimestampMissing
            \/ IsText(LastScanned, TESTING)
            \/ TimestampUnparsable
            \/ TimestampNotString
            \/ OlderThanThreshold) => ReturnedBool(TRUE)
        /\ WithinThreshold /\ KnownComplete => ReturnedBool(FALSE)

\* a call with a number as the timestamp has returned True
C19_Witness == LastScanned = JNum(123) /\ ReturnedBool(TRUE)

\* every count is a number, 'None', or not stored
CountsReadable ==
    /\ CountReadable("CodeAlerts")
    /\ CountReadable("SecretAlerts_Total")
    /\ CountReadable("DependencyAlerts")

\* C20: with the timestamp within the threshold, the function returns True exactly when
\* the stored data is incomplete: a positive CodeAlerts or DependencyAlerts with one of
\* its four severity properties missing, no SecretAlerts_Total key, or a positive
\* SecretAlerts_Total with SecretAlerts_By_Type missing; with a count of zero the
\* breakdown is not required.
C20_RescanExactlyWhenIncomplete ==
    GhasCalled /\ WithinThreshold /\ CountsReadable =>
        /\ ~ghas_return.raised
        /\ ghas_return.value <=> DataIncomplete

-----------------------------------------------------------------------------
(* clone_repository (src/src/github.py).  The GitHub API, curl,             *)
(* is_valid_tarball's view of the file, tar and the file system decide the  *)
(* outcome of each step; every outcome they can give is a choice.           *)

max_retries == 3

\* one attempt more than max_retries
CanRetryAlways(n) == n < max_retries + 1

\* attempt < max_retries
CanRetry(n) == n < max_retries

\* the finally clause of an attempt: os.path.exists(tarball_file) and os.remove, which may
\* fail with an OSError that is logged
AfterCleanup(exists, removed) == exists /\ ~removed

\* the function is left by a return, or by running off the end of the loop
CloneReturns ==
    /\ clone_pc' = "done"
    /\ clone_outcome' = "returned"
    /\ attempt' = attempt

\* the function is left by an exception
CloneRaisesOut ==
    /\ clone_pc' = "done"
    /\ clone_outcome' = "raised"
    /\ attempt' = attempt

\* the loop takes the next value of range(1, max_retries + 1)
NextAttempt ==
    /\ clone_pc' = "api"
    /\ clone_outcome' = clone_outcome
    /\ attempt' = attempt + 1

\* after a failed attempt: the next attempt when attempt < max_retries, else the function
\* is left
RetryOrReturn == IF CanRetry(attempt) THEN NextAttempt ELSE CloneReturns

\* lines 383-397: remove local_repo_path, make an empty <local_repo_path>_temp, make the
\* parent of local_repo_path
CloneSetup ==
    /\ clone_pc = "setup"
    /\ local_exists' = FALSE
    /\ temp_exists' = TRUE
    /\ clone_pc' = "api"
    /\ attempt' = 1
    /\ UNCHANGED <<tarball_exists, tarball_bound, api_results, curl_results, valid_results,
                   tar_results, tar_targets, clone_outcome>>
    /\ UNCHANGED notCloneVars

\* line 406: gh.rest.repos.download_tarball_archive returns
ApiReturns ==
    /\ clone_pc = "api"
    /\ api_results' = Append(api_results, TRUE)
    /\ tarball_bound' = TRUE
    /\ clone_pc' = "curl"
    /\ UNCHANGED <<attempt, local_exists, temp_exists, tarball_exists, curl_results,
                   valid_results, tar_results, tar_targets, clone_outcome>>
    /\ UNCHANGED notCloneVars

\* line 406 raises: the handler of line 454, then the finally clause, which reads
\* tarball_file
ApiRaises ==
    /\ clone_pc = "api"
    /\ api_results' = Append(api_results, FALSE)
    /\ \E removed \in BOOLEAN :
          IF tarball_bound
          THEN /\ tarball_exists' = AfterCleanup(tarball_exists, removed)
               /\ RetryOrReturn
          ELSE /\ tarball_exists' = tarball_exists
               /\ CloneRaisesOut
    /\ UNCHANGED <<local_exists, temp_exists, tarball_bound, curl_results, valid_results,
                   tar_results, tar_targets>>
    /\ UNCHANGED notCloneVars

\* line 414: curl exits with 0 and has written the file
CurlSucceeds ==
    /\ clone_pc = "curl"
    /\ curl_results' = Append(curl_results, TRUE)
    /\ tarball_exists' = TRUE
    /\ clone_pc' = "valid"
    /\ UNCHANGED <<attempt, local_exists, temp_exists, tarball_bound, api_results,
                   valid_results, tar_results, tar_targets, clone_outcome>>
    /\ UNCHANGED notCloneVars

\* line 414 raises CalledProcessError, with or without a file written: the handler of
\* line 445, then the finally clause
CurlFails ==
    /\ clone_pc = "curl"
    /\ curl_results' = Append(curl_results, FALSE)
    /\ \E written \in BOOLEAN, removed \in BOOLEAN :
          tarball_exists' = AfterCleanup(tarball_exists \/ written, removed)
    /\ RetryOrReturn
    /\ UNCHANGED <<local_exists, temp_exists, tarball_bound, api_results, valid_results,
                   tar_results, tar_targets>>
    /\ UNCHANGED notCloneVars

\* line 418: is_valid_tarball returns True
TarballValid ==
    /\ clone_pc = "valid"
    /\ valid_results' = Append(valid_results, TRUE)
    /\ clone_pc' = "tar"
    /\ UNCHANGED <<attempt, local_exists, temp_exists, tarball_exists, tarball_bound,
                   api_results, curl_results, tar_results, tar_targets, clone_outcome>>
    /\ UNCHANGED notCloneVars

\* lines 418-426: is_valid_tarball returns False; continue or return, through the finally
\* clause
TarballInvalid ==
    /\ clone_pc = "valid"
    /\ valid_results' = Append(valid_results, FALSE)
    /\ \E removed \in BOOLEAN : tarball_exists' = AfterCleanup(tarball_exists, removed)
    /\ RetryOrReturn
    /\ UNCHANGED <<local_exists, temp_exists, tarball_bound, api_results, curl_results,
                   tar_results, tar_targets>>
    /\ UNCHANGED notCloneVars

\* lines 430-435: tar -xvf tarball_file -C local_repo_path exits with 0; break, through the
\* finally clause
TarSucceeds ==
    /\ clone_pc = "tar"
    /\ tar_results' = Append(tar_results, TRUE)
    /\ tar_targets' = Append(tar_targets, local_exists)
    /\ \E removed \in BOOLEAN : tarball_exists' = AfterCleanup(tarball_exists, removed)
    /\ CloneReturns
    /\ UNCHANGED <<local_exists, temp_exists, tarball_bound, api_results, curl_results,
                   valid_results>>
    /\ UNCHANGED notCloneVars

\* lines 436-443: tar raises CalledProcessError; the inner handler, the finally clause, and
\* the next iteration of the loop if there is one
TarFails ==
    /\ clone_pc = "tar"
    /\ tar_results' = Append(tar_results, FALSE)
    /\ tar_targets' = Append(tar_targets, local_exists)
    /\ \E removed \in BOOLEAN : tarball_exists' = AfterCleanup(tarball_exists, removed)
    /\ RetryOrReturn
    /\ UNCHANGED <<local_exists, temp_exists, tarball_bound, api_results, curl_results,
                   valid_results>>
    /\ UNCHANGED notCloneVars

\* a call of clone_repository: local_repo_path, its _temp directory and a tarball file may
\* be left from an earlier run
CloneInit ==
    /\ clone_pc = "setup"
    /\ attempt = 0
    /\ local_exists \in BOOLEAN
    /\ temp_exists \in BOOLEAN
    /\ tarball_exists \in BOOLEAN
    /\ tarball_bound = FALSE
    /\ api_results = <<>>
    /\ curl_results = <<>>
    /\ valid_results = <<>>
    /\ tar_results = <<>>
    /\ tar_targets = <<>>
    /\ clone_outcome = "none"
    /\ OnlyCloneRuns

CloneNext ==
    \/ CloneSetup
    \/ ApiReturns
    \/ ApiRaises
    \/ CurlSucceeds
    \/ CurlFails
    \/ TarballValid
    \/ TarballInvalid
    \/ TarSucceeds
    \/ TarFails

CloneSpec == CloneInit /\ [][CloneNext]_vars

-----------------------------------------------------------------------------
(* Properties of clone_repository *)

CloneDone == clone_pc = "done"

\* every entry of the sequence of results is the value
AllAre(results, b) == \A i \in DOMAIN results : results[i] = b

\* every API call and every download went well
DownloadsWork == AllAre(api_results, TRUE) /\ AllAre(curl_results, TRUE)

\* every downloaded file failed the validation
NeverValid == DownloadsWork /\ AllAre(valid_results, FALSE)

\* the validation passed and tar failed, every time
TarAlwaysFails ==
    DownloadsWork /\ AllAre(valid_results, TRUE) /\ AllAre(tar_results, FALSE)

\* the first attempt went well from the API call to tar
FirstAttemptSucceeds ==
    /\ api_results # <<>> /\ api_results[1]
    /\ curl_results # <<>> /\ curl_results[1]
    /\ valid_results # <<>> /\ valid_results[1]
    /\ tar_results # <<>> /\ tar_results[1]

\* C21: at most 3 attempts are made and the first fully successful one is the last; when
\* every file fails validation there are exactly 3 API calls, 3 downloads, 3 validations
\* and no run of tar; when tar fails every time there are exactly 3 downloads and 3 runs
\* of tar; when the first attempt succeeds there is exactly 1 download and 1 run of tar;
\* in the three cases the function returns.
C21_AttemptsCounted ==
    /\ attempt <= 3
    /\ Len(api_results) <= 3
    /\ \A i \in DOMAIN tar_results : tar_results[i] => i = Len(tar_results) /\ CloneDone
    /\ CloneDone /\ NeverValid =>
          /\ Len(api_results) = 3 /\ Len(curl_results) = 3 /\ Len(valid_results) = 3
          /\ tar_results = <<>>
          /\ clone_outcome = "returned"
    /\ CloneDone /\ TarAlwaysFails =>
          /\ Len(curl_results) = 3 /\ Len(tar_results) = 3
          /\ clone_outcome = "returned"
    /\ CloneDone /\ FirstAttemptSucceeds =>
          /\ Len(curl_results) = 1 /\ Len(tar_results) = 1
          /\ clone_outcome = "returned"

\* the function has returned after three files that failed the validation
C21_Witness == CloneDone /\ NeverValid /\ Len(valid_results) = 3

\* an API call for the tarball URL failed
ApiFailed == \E i \in DOMAIN api_results : ~api_results[i]

\* C27: a failure of the tarball-URL API call is handled like any other failure of an
\* attempt: the function does not raise, cleanup step included, and when the call fails
\* every time it is made 3 times.
C27_ApiFailureRetried ==
    CloneDone /\ ApiFailed =>
        /\ clone_outcome = "returned"
        /\ AllAre(api_results, FALSE) => Len(api_results) = 3

\* C28: at every run of tar the directory local_repo_path exists, and when the function
\* has returned neither the tarball file nor the directory <local_repo_path>_temp is left.
C28_TargetExistsNothingLeft ==
    /\ AllAre(tar_targets, TRUE)
    /\ CloneDone /\ clone_outcome = "returned" => ~tarball_exists /\ ~temp_exists

-----------------------------------------------------------------------------
(* generate_report (src/src/report.py).  The aggregates by severity, by     *)
(* secret type and by date are sums of the same kind as the three totals    *)
(* and are written under keys of their own; the model carries the totals    *)
(* and the per-repository mapping.                                          *)

\* the greatest number of repositories in a report
MaxReportRepos == 2

CODE_ALERTS == "CodeAlerts"
SECRET_ALERTS == "SecretAlerts"
DEPENDENCY_ALERTS == "DependencyAlerts"
TARGET_ORG == "test-org"

\* safe_int_convert(value): 0 for None and for what int() rejects
SafeIntConvert(value) ==
    IF value = None THEN 0
    ELSE IF value.t = "num" THEN value.v
    ELSE IF value.t = "str" /\ IsDigits(value.v) THEN IntOfDigits(value.v, 0)
    ELSE 0

\* lines 168-184 for one repository: whether it was scanned, and its three counts
AlertCounts(repo_prop) ==
    [scanned |-> GHAS_STATUS_UPDATED \in DOMAIN repo_prop.properties,
     code |-> SafeIntConvert(PropertyGet(repo_prop.properties, CODE_ALERTS, JNum(0))),
     secret |-> SafeIntConvert(PropertyGet(repo_prop.properties, SECRET_ALERTS, JNum(0))),
     dependency |->
         SafeIntConvert(PropertyGet(repo_prop.properties, DEPENDENCY_ALERTS, JNum(0)))]

\* the sum of one count over the scanned repositories
RECURSIVE TotalOf(_, _)
TotalOf(repos, count) ==
    IF repos = <<>> THEN 0
    ELSE TotalOf(Tail(repos), count)
         + (IF AlertCounts(Head(repos)).scanned THEN AlertCounts(Head(repos))[count] ELSE 0)

\* lines 219-236: the repository is scanned and has an alert
HasAlerts(repo_prop) ==
    /\ AlertCounts(repo_prop).scanned
    /\ \/ AlertCounts(repo_prop).code > 0
       \/ AlertCounts(repo_prop).secret > 0
       \/ AlertCounts(repo_prop).dependency > 0

\* the entry of repos_alerts of one repository
RepoAlerts(repo_prop) ==
    [code |-> AlertCounts(repo_prop).code,
     secret |-> AlertCounts(repo_prop).secret,
     dependency |-> AlertCounts(repo_prop).dependency,
     total |-> AlertCounts(repo_prop).code + AlertCounts(repo_prop).secret
               + AlertCounts(repo_prop).dependency]

\* repos_alerts: full name to entry; a later repository of the same name replaces an
\* earlier one
ReposAlerts(repos) ==
    [full_name \in {<<TARGET_ORG, repos[i].repository_name>> :
                      i \in {j \in DOMAIN repos : HasAlerts(repos[j])}} |->
        RepoAlerts(repos[CHOOSE i \in DOMAIN repos :
                            /\ HasAlerts(repos[i])
                            /\ repos[i].repository_name = full_name[2]
                            /\ \A j \in DOMAIN repos :
                                  HasAlerts(repos[j])
                                  /\ repos[j].repository_name = full_name[2] => j <= i])]

\* lines 258-276: stats
Stats(repos) ==
    [organization |-> TARGET_ORG,
     total_repositories |-> Len(repos),
     scanned_repositories |-> Cardinality({i \in DOMAIN repos : AlertCounts(repos[i]).scanned}),
     repos_with_alerts |-> Cardinality({i \in DOMAIN repos : HasAlerts(repos[i])}),
     total_code_alerts |-> TotalOf(repos, "code"),
     total_secret_alerts |-> TotalOf(repos, "secret"),
     total_dependency_alerts |-> TotalOf(repos, "dependency"),
     total_alerts |-> TotalOf(repos, "code") + TotalOf(repos, "secret")
                      + TotalOf(repos, "dependency"),
     repos_alerts |-> ReposAlerts(repos)]

\* lines 278-282: json.dump(stats, f), which writes every key of stats whatever CI is
JsonReport(stats, ci) == stats

-----------------------------------------------------------------------------
(* The calls of generate_report *)

\* the values of a count property
ReportCounts == {Absent, JStr(<<"0">>), JStr(<<"2">>), JNum(1), None}

\* the properties of a repository: scanned or not, with its counts
ReportProperties ==
    {Property(GHAS_STATUS_UPDATED, ts) @@ Property(CODE_ALERTS, code)
       @@ Property(SECRET_ALERTS, secret) @@ Property(DEPENDENCY_ALERTS, dep) :
        ts \in {Absent, JStr(InstantText(1))}, code \in ReportCounts,
        secret \in {Absent, JStr(<<"3">>)}, dep \in {JStr(<<"0">>), JStr(<<"2">>)}}

REPO_NAMES == <<"test-repo-1", "test-repo-2", "test-repo-3", "test-repo-4">>

\* the lists of n repositories, named in order
ReportInputs(n) ==
    {[i \in 1..n |-> [repository_name |-> REPO_NAMES[i], properties |-> props[i]]] :
        props \in [1..n -> ReportProperties]}

ReportInit ==
    /\ \E n \in 0..MaxReportRepos : repo_properties \in ReportInputs(n)
    /\ ci_env \in {None, JStr(<<"t", "r", "u", "e">>)}
    /\ json_file = None
    /\ OnlyReportRuns

\* generate_report(repo_properties, target_org, output_dir)
GenerateReport ==
    /\ json_file = None
    /\ json_file' = JsonReport(Stats(repo_properties), ci_env)
    /\ UNCHANGED <<repo_properties, ci_env>>
    /\ UNCHANGED notReportVars

ReportNext == GenerateReport

ReportSpec == ReportInit /\ [][ReportNext]_vars

-----------------------------------------------------------------------------
(* Properties of generate_report *)

ReportWritten == json_file # None

\* the CI environment variable is set
CiSet == Truthy(ci_env)

\* the same alert data attributed to the repositories in another order
Reattributed(repos) ==
    {[i \in DOMAIN repos |-> [repository_name |-> repos[i].repository_name,
                              properties |-> repos[perm[i]].properties]] :
        perm \in {p \in [DOMAIN repos -> DOMAIN repos] :
                    \A i, j \in DOMAIN repos : p[i] = p[j] => i = j}}

\* C22: with CI set the JSON report has the totals and no repos_alerts, without CI it has
\* repos_alerts; so with CI set two runs that differ only in which repository the alerts
\* belong to write the same JSON file.
C22_CiReportHidesRepositories ==
    ReportWritten =>
        /\ "total_code_alerts" \in DOMAIN json_file
        /\ "total_secret_alerts" \in DOMAIN json_file
        /\ "total_dependency_alerts" \in DOMAIN json_file
        /\ "repos_alerts" \in DOMAIN json_file <=> ~CiSet
        /\ CiSet => \A other \in Reattributed(repo_properties) :
                       JsonReport(Stats(other), ci_env) = json_file

-----------------------------------------------------------------------------
(* get_secret_scanning_alerts (src/src/analyze.py) *)

\* the greatest number of alerts of a repository
MaxAlerts == 3

UNKNOWN == <<"Unknown">>

\* getattr of an alert: the value, or AttributeError when the alert has no such attribute
HasAttribute(alert, name) == alert[name] # Absent

\* alert.secret_type_display_name or alert.secret_type or "Unknown": the secret type, or
\* the AttributeError of the first attribute read that is missing
SecretTypeOf(alert) ==
    IF ~HasAttribute(alert, "secret_type_display_name") THEN Raise("AttributeError")
    ELSE IF Truthy(alert.secret_type_display_name)
    THEN [raised |-> FALSE, value |-> alert.secret_type_display_name.v]
    ELSE IF ~HasAttribute(alert, "secret_type") THEN Raise("AttributeError")
    ELSE IF Truthy(alert.secret_type)
    THEN [raised |-> FALSE, value |-> alert.secret_type.v]
    ELSE [raised |-> FALSE, value |-> UNKNOWN]

\* result["types"][secret_type] += 1, or = 1 for a new type
CountType(types, secret_type) ==
    IF secret_type \in DOMAIN types
    THEN [types EXCEPT ![secret_type] = @ + 1]
    ELSE types @@ (secret_type :> 1)

\* lines 163-169: the loop over the alerts; an exception leaves the loop with the types
\* counted so far
RECURSIVE CountAlerts(_, _)
CountAlerts(alerts, types) ==
    IF alerts = <<>> THEN [raised |-> FALSE, types |-> types]
    ELSE IF SecretTypeOf(Head(alerts)).raised THEN [raised |-> TRUE, types |-> types]
    ELSE CountAlerts(Tail(alerts), CountType(types, SecretTypeOf(Head(alerts)).value))

\* get_secret_scanning_alerts(gh, owner, repo): the handlers of lines 177-187 all return
\* result as it is when the exception arrives
GetSecretScanningAlerts(alerts, api) ==
    IF api # "returns" THEN [total |-> 0, types |-> <<>>]
    ELSE [total |-> Len(alerts), types |-> CountAlerts(alerts, <<>>).types]

-----------------------------------------------------------------------------
(* The calls of get_secret_scanning_alerts *)

\* the values of an attribute of an alert: missing, None, empty, a name
DisplayNames == {Absent, None, JStr(<<>>), JStr(<<"Slack Token">>)}
SecretTypes == {Absent, None, JStr(<<"slack_token">>), JStr(<<"aws_key">>)}

Alerts == [secret_type_display_name : DisplayNames, secret_type : SecretTypes]

SecretInit ==
    /\ \E n \in 0..MaxAlerts : secret_alerts \in [1..n -> Alerts]
    /\ secret_api \in {"returns", "404", "RequestFailed", "Exception"}
    /\ secret_return = None
    /\ OnlySecretRuns

\* get_secret_scanning_alerts(gh, owner, repo)
CallGetSecretScanningAlerts ==
    /\ secret_return = None
    /\ secret_return' = GetSecretScanningAlerts(secret_alerts, secret_api)
    /\ UNCHANGED <<secret_alerts, secret_api>>
    /\ UNCHANGED notSecretVars

SecretNext == CallGetSecretScanningAlerts

SecretSpec == SecretInit /\ [][SecretNext]_vars

-----------------------------------------------------------------------------
(* Properties of get_secret_scanning_alerts *)

SecretReturned == secret_return # None

\* the sum of the counts of a mapping
RECURSIVE SumOfCounts(_)
SumOfCounts(types) ==
    IF DOMAIN types = {} THEN 0
    ELSE types[CHOOSE k \in DOMAIN types : TRUE]
         + SumOfCounts([j \in DOMAIN types \ {CHOOSE k \in DOMAIN types : TRUE} |-> types[j]])

\* the alert has no display name: the attribute is missing, None or empty
NoDisplayName(alert) ==
    alert.secret_type_display_name \in {Absent, None, JStr(<<>>)}

\* the alert has no secret type either
NoSecretType(alert) == alert.secret_type \in {Absent, None, JStr(<<>>)}

\* the name the alert is to be counted under
ExpectedType(alert) ==
    IF ~NoDisplayName(alert) THEN alert.secret_type_display_name.v
    ELSE IF ~NoSecretType(alert) THEN alert.secret_type.v
    ELSE UNKNOWN

\* the number of alerts to be counted under the name
ExpectedCount(name) ==
    Cardinality({i \in DOMAIN secret_alerts : ExpectedType(secret_alerts[i]) = name})

\* C23: total is the sum of the counts of types; an alert without a display name is
\* counted under its secret_type, and an alert with neither, the value None or the
\* attribute missing, under "Unknown".
C23_TotalIsSumOfTypes ==
    SecretReturned =>
        /\ secret_return.total = SumOfCounts(secret_return.types)
        /\ secret_api = "returns" =>
              /\ DOMAIN secret_return.types
                    = {ExpectedType(secret_alerts[i]) : i \in DOMAIN secret_alerts}
              /\ \A name \in DOMAIN secret_return.types :
                    secret_return.types[name] = ExpectedCount(name)

-----------------------------------------------------------------------------
(* Properties of the start offset of the brace matching *)

\* what the scan located in the file on which the brace matching ran
MatchedFinding(i) == Located[FileAt(matched[i])]

\* the text begins with an opening brace and ends with a closing one
Braced(s) == s # <<>> /\ s[1] = "{" /\ s[Len(s)] = "}"

\* C24: when brace matching starts, the start offset is a non-negative index of the
\* stripped content and the character there is an opening brace, so the extracted text
\* begins with that brace and ends with its match; a marker at offset 0 does not make
\* the look-behind read the last character of the content.
C24_StartIsOpeningBrace ==
    \A i \in DOMAIN matched :
        /\ MatchedFinding(i).start >= 0
        /\ MatchedFinding(i).start < Len(MatchedFinding(i).stripped)
        /\ At(MatchedFinding(i).stripped, MatchedFinding(i).start) = "{"
        /\ MatchedFinding(i).closed =>
              /\ Braced(MatchedFinding(i).json_str)
              /\ Balanced(MatchedFinding(i).json_str)

-----------------------------------------------------------------------------
(* process_mcp_repos: forking the source repositories into the target
   organisation.  Names are sequences of one-character strings, ".git" being
   one token; every name of the model is lower-case, so str.lower() leaves it
   as it is.  What the GitHub API answers (fork creation, property read,
   property update) is chosen when the call is made. *)

\* greatest number of source URLs in one run
MaxUrls == 3

\* greatest --num-repos
MaxNumRepos == 2

\* str.split("__"): the parts between the non-overlapping occurrences of "__", left to right
RECURSIVE SplitName(_, _)
SplitName(s, part) ==
    IF s = <<>> THEN <<part>>
    ELSE IF Len(s) >= 2 /\ s[1] = "_" /\ s[2] = "_"
         THEN <<part>> \o SplitName(SubSeq(s, 3, Len(s)), <<>>)
         ELSE SplitName(Tail(s), Append(part, s[1]))

\* f"{source_owner}/{source_repo}"
FullName(owner, repo) == owner \o <<"/">> \o repo

\* get_target_repo_name(source_owner, source_repo)
get_target_repo_name(source_owner, source_repo) == source_owner \o <<"_", "_">> \o source_repo

\* len(parts) == 2
TwoParts(parts) == Len(parts) = 2

\* get_parent_full_name(repo_info): "" unless the name splits into exactly two parts
get_parent_full_name(repo_info) ==
    IF repo_info # None /\ repo_info.name # <<>>
    THEN LET parts == SplitName(repo_info.name, <<>>)
         IN  IF TwoParts(parts) THEN FullName(parts[1], parts[2]) ELSE <<>>
    ELSE <<>>

\* str.replace(".git", "")
RemoveDotGit(name) == SelectSeq(name, LAMBDA c : c # ".git")

\* no name: None, which the callers treat as they treat the empty string
NoName == <<>>

\* extract_repo_owner_name(github_url): (owner, repo), (None, None) for another host or a short path
extract_repo_owner_name(github_url) ==
    IF github_url.netloc = "github.com" /\ Len(github_url.path) >= 2
    THEN [owner |-> github_url.path[1], repo |-> RemoveDotGit(github_url.path[2])]
    ELSE [owner |-> NoName, repo |-> NoName]

\* a URL: its text, and what urlparse makes of it
Url(text, netloc, path) == [text |-> text, netloc |-> netloc, path |-> path]

\* the URLs of the catalogues, in the order sorted() gives their texts
URLS == <<
    Url("", "", <<>>),
    Url("https://github.com/o/a__b", "github.com", << <<"o">>, <<"a", "_", "_", "b">> >>),
    Url("https://github.com/o/r", "github.com", << <<"o">>, <<"r">> >>),
    Url("https://github.com/o/r.git", "github.com", << <<"o">>, <<"r", ".git">> >>),
    Url("https://github.com/o__x/r", "github.com", << <<"o", "_", "_", "x">>, <<"r">> >>),
    Url("https://gitlab.com/o/r", "gitlab.com", << <<"o">>, <<"r">> >>) >>

\* the elements of a sequence at the chosen positions, in their order
RECURSIVE SubList(_, _, _)
SubList(seq, chosen, i) ==
    IF i > Len(seq) THEN <<>>
    ELSE (IF i \in chosen THEN <<seq[i]>> ELSE <<>>) \o SubList(seq, chosen, i + 1)

\* sorted(list(set(all_server_repos))) of at most MaxUrls URLs
UrlLists == {SubList(URLS, chosen, 1) : chosen \in {c \in SUBSET (1..Len(URLS)) : Cardinality(c) <= MaxUrls}}

\* not source_owner or not source_repo
Unnamed(source) == source.owner = NoName \/ source.repo = NoName

\* the sources the URLs of a list name
SourcesOf(urls) ==
    {extract_repo_owner_name(urls[i]) :
        i \in {j \in 1..Len(urls) : urls[j].text # "" /\ ~Unnamed(extract_repo_owner_name(urls[j]))}}

\* a repository of the target organisation: its name, and whether GitHub lists it as a fork
OrgRepo(name, fork) == [name |-> name, fork |-> fork]

\* the fork of a source, under the name get_target_repo_name gives it
ForkOf(source) == OrgRepo(get_target_repo_name(source.owner, source.repo), TRUE)

\* the listings of the target organisation: each source has its fork, a repository
\* of that name that is no fork, or nothing
OrgListings(urls) ==
    {{OrgRepo(get_target_repo_name(s.owner, s.repo), kind[s] = "fork") :
          s \in {x \in SourcesOf(urls) : kind[x] # "none"}} :
       kind \in [SourcesOf(urls) -> {"none", "fork", "other"}]}

\* the custom properties a fork can have; LastUpdated is "None" when not set, and
\* else "Testing", a timestamp of the last 7 days ("recent"), an older one ("old"),
\* or a text fromisoformat rejects ("garbage")
LastUpdatedKinds == {"None", "Testing", "recent", "old", "garbage"}

EmptyProperties == [t |-> "empty"]

ForkProperties ==
    {EmptyProperties}
    \cup [LastUpdated : LastUpdatedKinds, GHAS_Enabled : BOOLEAN, HasDependabotConfig : BOOLEAN]

\* reprocess_repository(properties)
reprocess_repository(properties) ==
    IF properties.LastUpdated = "Testing" THEN ReturnsBool(TRUE)
    ELSE IF properties.LastUpdated = "garbage" THEN Raise("ValueError")
    ELSE IF properties.LastUpdated = "recent" THEN ReturnsBool(FALSE)
    ELSE IF properties.GHAS_Enabled THEN ReturnsBool(FALSE)
    ELSE IF properties.HasDependabotConfig THEN ReturnsBool(FALSE)
    ELSE ReturnsBool(TRUE)

\* what gh.rest.repos.create_fork does
CreateForkResults == {"accepted", "404", "RequestFailed", "Exception"}

\* the repository of the listing with the target name, None when there is none
TargetRepoInfo(existing, target_repo_name) ==
    IF \E r \in existing : r.name = target_repo_name
    THEN CHOOSE r \in existing : r.name = target_repo_name
    ELSE None

\* ensure_repository_fork(existing_repos, gh, source_owner, source_repo, ...):
\* (fork_exists, fork_skipped, failure_reason), and whether create_fork was requested
ensure_repository_fork(existing, source_owner, source_repo, api) ==
    LET target_repo_info == TargetRepoInfo(existing, get_target_repo_name(source_owner, source_repo))
        parent_full_name == get_parent_full_name(target_repo_info)
        result(e, s, reason, requested) ==
            [source |-> FullName(source_owner, source_repo), fork_exists |-> e,
             fork_skipped |-> s, failure_reason |-> reason, requested |-> requested]
    IN  IF target_repo_info # None /\ target_repo_info.fork
           /\ parent_full_name = FullName(source_owner, source_repo)
        THEN result(TRUE, FALSE, "", FALSE)
        ELSE IF target_repo_info # None THEN result(FALSE, TRUE, "", FALSE)
        ELSE IF api = "accepted" THEN result(TRUE, FALSE, "", TRUE)
        ELSE IF api = "404"
             THEN result(FALSE, FALSE, "Source repository not found or not accessible", TRUE)
        ELSE IF api = "RequestFailed" THEN result(FALSE, FALSE, "GitHub API error", TRUE)
        ELSE result(FALSE, FALSE, "Unexpected error", TRUE)

\* d[key] = value
SetItem(d, key, value) == [k \in DOMAIN d \cup {key} |-> IF k = key THEN value ELSE d[k]]

\* the test main makes with the count that is larger than the limit only
LimitExceeded(count, limit) == count > limit

\* processed_repo_count >= num_to_process
LimitReached(count, limit) == count >= limit

\* the URL the loop of main has taken
github_url == all_server_repos[url_idx]

\* the source the URL names
Source == extract_repo_owner_name(github_url)

source_repo_full_name == FullName(Source.owner, Source.repo)

\* (processed_increment, dependabot_increment, skipped_non_fork, failed_fork)
ProcessResult(processed, dependabot, skipped, failed) ==
    [raised |-> FALSE, value |-> <<processed, dependabot, skipped, failed>>]

\* process_repository returns, and main adds what it returned to its counters
ProcessReturns(processed, dependabot, skipped, failed) ==
    /\ process_return' = ProcessResult(processed, dependabot, skipped, failed)
    /\ processed_repo_count' = processed_repo_count + processed
    /\ skipped_non_fork_count' = skipped_non_fork_count + (IF skipped THEN 1 ELSE 0)
    /\ failed_fork_count' = failed_fork_count + (IF failed THEN 1 ELSE 0)
    /\ fork_pc' = "loop"

\* an exception inside the try of process_repository: the handler logs with
\* json_file_path, a name that is not defined, before it records anything; the
\* NameError leaves process_repository and ends main in its outer handler
HandlerRaises ==
    /\ process_return' = Raise("NameError: name 'json_file_path' is not defined")
    /\ fork_pc' = "script_failed"
    /\ UNCHANGED <<processed_repo_count, skipped_non_fork_count, failed_fork_count, failed_forks>>

ForkInit ==
    /\ fork_pc = "start"
    /\ all_server_repos \in UrlLists
    /\ target_org_repos \in OrgListings(all_server_repos)
    /\ num_to_process \in 0..MaxNumRepos
    /\ url_idx = 0
    /\ processed_repo_count = 0
    /\ processed_repos = {}
    /\ failed_forks = <<>>
    /\ skipped_non_fork_count = 0
    /\ failed_fork_count = 0
    /\ fork_requests = <<>>
    /\ ensure_return = None
    /\ process_return = None
    /\ OnlyForkRuns

\* main: no URL was found
NoConfigurations ==
    /\ fork_pc = "start"
    /\ all_server_repos = <<>>
    /\ fork_pc' = "no_configurations"
    /\ UNCHANGED <<all_server_repos, target_org_repos, num_to_process, url_idx,
                   processed_repo_count, processed_repos, failed_forks, skipped_non_fork_count,
                   failed_fork_count, fork_requests, ensure_return, process_return>>
    /\ UNCHANGED notForkVars

\* main: the loop over the URLs starts
StartLoop ==
    /\ fork_pc = "start"
    /\ all_server_repos # <<>>
    /\ fork_pc' = "loop"
    /\ UNCHANGED <<all_server_repos, target_org_repos, num_to_process, url_idx,
                   processed_repo_count, processed_repos, failed_forks, skipped_non_fork_count,
                   failed_fork_count, fork_requests, ensure_return, process_return>>
    /\ UNCHANGED notForkVars

\* main: the limit is reached, the loop breaks
ReachedLimit ==
    /\ fork_pc = "loop"
    /\ url_idx < Len(all_server_repos)
    /\ LimitReached(processed_repo_count, num_to_process)
    /\ fork_pc' = "report"
    /\ UNCHANGED <<all_server_repos, target_org_repos, num_to_process, url_idx,
                   processed_repo_count, processed_repos, failed_forks, skipped_non_fork_count,
                   failed_fork_count, fork_requests, ensure_return, process_return>>
    /\ UNCHANGED notForkVars

\* main: every URL was taken
UrlsExhausted ==
    /\ fork_pc = "loop"
    /\ url_idx = Len(all_server_repos)
    /\ fork_pc' = "report"
    /\ UNCHANGED <<all_server_repos, target_org_repos, num_to_process, url_idx,
                   processed_repo_count, processed_repos, failed_forks, skipped_non_fork_count,
                   failed_fork_count, fork_requests, ensure_return, process_return>>
    /\ UNCHANGED notForkVars

\* main: the loop takes the next URL and calls process_repository
TakeUrl ==
    /\ fork_pc = "loop"
    /\ url_idx < Len(all_server_repos)
    /\ ~LimitReached(processed_repo_count, num_to_process)
    /\ url_idx' = url_idx + 1
    /\ fork_pc' = "process"
    /\ ensure_return' = None
    /\ process_return' = None
    /\ UNCHANGED <<all_server_repos, target_org_repos, num_to_process, processed_repo_count,
                   processed_repos, failed_forks, skipped_non_fork_count, failed_fork_count,
                   fork_requests>>
    /\ UNCHANGED notForkVars

\* process_repository: the URL is empty
SkipEmptyUrl ==
    /\ fork_pc = "process"
    /\ github_url.text = ""
    /\ ProcessReturns(0, 0, FALSE, FALSE)
    /\ UNCHANGED <<all_server_repos, target_org_repos, num_to_process, url_idx, processed_repos,
                   failed_forks, fork_requests, ensure_return>>
    /\ UNCHANGED notForkVars

\* process_repository: the URL names no owner and repository
SkipUnparsableUrl ==
    /\ fork_pc = "process"
    /\ github_url.text # ""
    /\ Unnamed(Source)
    /\ ProcessReturns(0, 0, FALSE, FALSE)
    /\ UNCHANGED <<all_server_repos, target_org_repos, num_to_process, url_idx, processed_repos,
                   failed_forks, fork_requests, ensure_return>>
    /\ UNCHANGED notForkVars

\* the URL names a source
Parsable == github_url.text # "" /\ ~Unnamed(Source)

\* process_repository: the source was seen before in this run
SkipDuplicate ==
    /\ fork_pc = "process"
    /\ Parsable
    /\ source_repo_full_name \in processed_repos
    /\ ProcessReturns(0, 0, FALSE, FALSE)
    /\ UNCHANGED <<all_server_repos, target_org_repos, num_to_process, url_idx, processed_repos,
                   failed_forks, fork_requests, ensure_return>>
    /\ UNCHANGED notForkVars

\* process_repository calls ensure_repository_fork
EnsureCalled(api) ==
    /\ fork_pc = "process"
    /\ Parsable
    /\ source_repo_full_name \notin processed_repos
    /\ ensure_return' = ensure_repository_fork(target_org_repos, Source.owner, Source.repo, api)
    /\ fork_requests' = IF ensure_return'.requested
                        THEN Append(fork_requests, source_repo_full_name)
                        ELSE fork_requests

\* process_repository: the fork exists or was created
ForkEnsured ==
    /\ \E api \in CreateForkResults :
          /\ EnsureCalled(api)
          /\ ensure_return'.fork_exists
    /\ processed_repos' = processed_repos \cup {source_repo_full_name}
    /\ fork_pc' = "properties"
    /\ UNCHANGED <<all_server_repos, target_org_repos, num_to_process, url_idx,
                   processed_repo_count, failed_forks, skipped_non_fork_count,
                   failed_fork_count, process_return>>
    /\ UNCHANGED notForkVars

\* process_repository: a repository of the target name exists and is not the correct fork
ForkSkipped ==
    /\ \E api \in CreateForkResults :
          /\ EnsureCalled(api)
          /\ ~ensure_return'.fork_exists
          /\ ensure_return'.fork_skipped
    /\ processed_repos' = processed_repos \cup {source_repo_full_name}
    /\ ProcessReturns(0, 0, TRUE, FALSE)
    /\ UNCHANGED <<all_server_repos, target_org_repos, num_to_process, url_idx, failed_forks>>
    /\ UNCHANGED notForkVars

\* process_repository: the fork could not be created
ForkFailed ==
    /\ \E api \in CreateForkResults :
          /\ EnsureCalled(api)
          /\ ~ensure_return'.fork_exists
          /\ ~ensure_return'.fork_skipped
    /\ failed_forks' = SetItem(failed_forks, source_repo_full_name, ensure_return'.failure_reason)
    /\ ProcessReturns(0, 0, FALSE, TRUE)
    /\ UNCHANGED <<all_server_repos, target_org_repos, num_to_process, url_idx, processed_repos>>
    /\ UNCHANGED notForkVars

\* process_repository: get_repository_properties raises
PropertyReadRaises ==
    /\ fork_pc = "properties"
    /\ HandlerRaises
    /\ UNCHANGED <<all_server_repos, target_org_repos, num_to_process, url_idx, processed_repos,
                   fork_requests, ensure_return>>
    /\ UNCHANGED notForkVars

\* process_repository: reprocess_repository raises on the properties read
ReprocessRaises ==
    /\ fork_pc = "properties"
    /\ \E properties \in ForkProperties \ {EmptyProperties} :
          reprocess_repository(properties).raised
    /\ HandlerRaises
    /\ UNCHANGED <<all_server_repos, target_org_repos, num_to_process, url_idx, processed_repos,
                   fork_requests, ensure_return>>
    /\ UNCHANGED notForkVars

\* process_repository: the properties say the fork needs no processing
AlreadyProcessed ==
    /\ fork_pc = "properties"
    /\ \E properties \in ForkProperties \ {EmptyProperties} :
          reprocess_repository(properties) = ReturnsBool(FALSE)
    /\ ProcessReturns(0, 0, FALSE, FALSE)
    /\ UNCHANGED <<all_server_repos, target_org_repos, num_to_process, url_idx, processed_repos,
                   failed_forks, fork_requests, ensure_return>>
    /\ UNCHANGED notForkVars

\* process_repository: no properties, or properties that ask for processing
NeedsProcessing ==
    /\ fork_pc = "properties"
    /\ \E properties \in ForkProperties :
          \/ properties = EmptyProperties
          \/ properties # EmptyProperties /\ reprocess_repository(properties) = ReturnsBool(TRUE)
    /\ fork_pc' = "update"
    /\ UNCHANGED <<all_server_repos, target_org_repos, num_to_process, url_idx,
                   processed_repo_count, processed_repos, failed_forks, skipped_non_fork_count,
                   failed_fork_count, fork_requests, ensure_return, process_return>>
    /\ UNCHANGED notForkVars

\* process_repository: the fork is updated, GHAS enabled and the properties written
\* (update_forked_repo and enable_ghas_features swallow their exceptions,
\* check_dependabot_config answers False on one)
EnableAndUpdate ==
    /\ fork_pc = "update"
    /\ \E dependabot_configured \in BOOLEAN :
          ProcessReturns(1, IF dependabot_configured THEN 1 ELSE 0, FALSE, FALSE)
    /\ UNCHANGED <<all_server_repos, target_org_repos, num_to_process, url_idx, processed_repos,
                   failed_forks, fork_requests, ensure_return>>
    /\ UNCHANGED notForkVars

\* process_repository: update_repository_properties raises
PropertyUpdateRaises ==
    /\ fork_pc = "update"
    /\ HandlerRaises
    /\ UNCHANGED <<all_server_repos, target_org_repos, num_to_process, url_idx, processed_repos,
                   fork_requests, ensure_return>>
    /\ UNCHANGED notForkVars

ForkNext ==
    \/ NoConfigurations
    \/ StartLoop
    \/ ReachedLimit
    \/ UrlsExhausted
    \/ TakeUrl
    \/ SkipEmptyUrl
    \/ SkipUnparsableUrl
    \/ SkipDuplicate
    \/ ForkEnsured
    \/ ForkSkipped
    \/ ForkFailed
    \/ PropertyReadRaises
    \/ ReprocessRaises
    \/ AlreadyProcessed
    \/ NeedsProcessing
    \/ EnableAndUpdate
    \/ PropertyUpdateRaises

ForkSpec == ForkInit /\ [][ForkNext]_vars

-----------------------------------------------------------------------------
(* Properties of process_mcp_repos *)

\* main has left its loop and goes on to report
ForkLoopDone == fork_pc = "report"

\* C25 as stated: in one run of main the number of fork-creation requests issued
\* never exceeds --num-repos
C25_ForkRequestsWithinLimit == Len(fork_requests) <= num_to_process

\* C25: in one run of main the number of repositories counted as processed never
\* exceeds --num-repos, and the number of fork-creation requests never exceeds
\* the number of URLs the loop has taken
C25_ProcessedWithinLimit ==
    /\ processed_repo_count <= num_to_process
    /\ Len(fork_requests) <= url_idx

\* a finished loop that counted as many repositories as the limit allows and
\* requested more forks than that
C25_Witness ==
    /\ ForkLoopDone
    /\ processed_repo_count = num_to_process
    /\ Len(fork_requests) > num_to_process

\* the steps of process_repository at which an exception is raised inside its try
RaisesInProcessRepository == PropertyReadRaises \/ ReprocessRaises \/ PropertyUpdateRaises

\* C26: an exception raised while process_repository handles a source is caught
\* inside it: the source is recorded in failed_forks, the call returns
\* (0, 0, False, True) and main goes on with its loop
C26_ExceptionRecordedAndLoopContinues ==
    [][RaisesInProcessRepository =>
          /\ source_repo_full_name \in DOMAIN failed_forks'
          /\ process_return' = ProcessResult(0, 0, FALSE, TRUE)
          /\ fork_pc' = "loop"]_vars

\* ensure_repository_fork was called for the source of the URL taken
EnsureReturned == fork_pc # "start" /\ url_idx > 0 /\ ensure_return # None

\* C29: the fork named get_target_repo_name(owner, repo) has the parent
\* "owner/repo", and ensure_repository_fork finds it existing and does not skip it
C29_ForkNameRoundTrips ==
    (EnsureReturned /\ ForkOf(Source) \in target_org_repos)
        => /\ get_parent_full_name(ForkOf(Source)) = source_repo_full_name
           /\ ensure_return.fork_exists
           /\ ~ensure_return.fork_skipped

-----------------------------------------------------------------------------
(* scan_repository_for_alerts (src/src/analyze.py) with get_code_scanning_alerts
   and get_dependency_alerts.  An alert is its severity; the API of each alert
   type returns the open alerts, or fails with a 404, another RequestFailed or
   another exception.  The name should_scan_repository is imported from
   functions.py, which defines no function of that name: what the call does
   is a choice of the model (True, False, an exception). *)

\* greatest number of open alerts of one type
MaxScanAlerts == 1

\* an alert without a rule or without a severity
NoSeverity == "None"

\* str.lower() on the severities of the model
LowerSeverity(severity) ==
    CASE severity = "High" -> "high"
      [] severity = "MEDIUM" -> "medium"
      [] OTHER -> severity

\* the severity the loop counts: "unknown" for an alert without one
SeverityOf(alert) == IF alert = NoSeverity THEN "unknown" ELSE LowerSeverity(alert)

\* the counter an alert of get_code_scanning_alerts adds to: warning and note
\* count as low, error as medium, anything else in no counter
CodeCounter(severity) ==
    CASE severity \in {"critical", "high", "medium", "low"} -> severity
      [] severity \in {"warning", "note"} -> "low"
      [] severity = "error" -> "medium"
      [] OTHER -> "none"

\* the counter an alert of get_dependency_alerts adds to: medium counts as moderate
DependencyCounter(severity) ==
    CASE severity \in {"critical", "high", "low"} -> severity
      [] severity \in {"moderate", "medium"} -> "moderate"
      [] OTHER -> "none"

\* the number of code scanning alerts that add to a counter
CodeCounted(alerts, name) ==
    Cardinality({i \in 1..Len(alerts) : CodeCounter(SeverityOf(alerts[i])) = name})

\* the number of dependency alerts that add to a counter
DependencyCounted(alerts, name) ==
    Cardinality({i \in 1..Len(alerts) : DependencyCounter(SeverityOf(alerts[i])) = name})

\* get_code_scanning_alerts(gh, owner, repo): every handler returns result with its zeros
get_code_scanning_alerts(alerts, api) ==
    IF api # "returns" THEN [total |-> 0, critical |-> 0, high |-> 0, medium |-> 0, low |-> 0]
    ELSE [total |-> Len(alerts),
          critical |-> CodeCounted(alerts, "critical"),
          high |-> CodeCounted(alerts, "high"),
          medium |-> CodeCounted(alerts, "medium"),
          low |-> CodeCounted(alerts, "low")]

\* get_dependency_alerts(gh, owner, repo): every handler returns result with its zeros
get_dependency_alerts(alerts, api) ==
    IF api # "returns" THEN [total |-> 0, critical |-> 0, high |-> 0, moderate |-> 0, low |-> 0]
    ELSE [total |-> Len(alerts),
          critical |-> DependencyCounted(alerts, "critical"),
          high |-> DependencyCounted(alerts, "high"),
          moderate |-> DependencyCounted(alerts, "moderate"),
          low |-> DependencyCounted(alerts, "low")]

\* json.dumps(secret_alerts["types"]) if secret_alerts["types"] else "{}": the text
\* of a mapping with types is kept as its braces around the number of its types
SecretTypesText(types) ==
    IF DOMAIN types = {} THEN JStr(<<"{", "}">>)
    ELSE JStr(<<"{", "t", ":", ToString(Cardinality(DOMAIN types)), "}">>)

\* datetime.datetime.now().isoformat()
NowText == JStr(InstantText(0))

\* properties_to_update of scan_repository_for_alerts
PropertiesToUpdate(code_alerts, secret_alerts_, dependency_alerts) ==
    [k \in {"CodeAlerts", "SecretAlerts", "DependencyAlerts", "CodeAlerts_Critical",
            "CodeAlerts_High", "CodeAlerts_Medium", "CodeAlerts_Low", "SecretAlerts_Total",
            "SecretAlerts_By_Type", "DependencyAlerts_Critical", "DependencyAlerts_High",
            "DependencyAlerts_Moderate", "DependencyAlerts_Low", GHAS_STATUS_UPDATED} |->
        CASE k = "CodeAlerts" -> JNum(code_alerts.total)
          [] k = "SecretAlerts" -> JNum(secret_alerts_.total)
          [] k = "DependencyAlerts" -> JNum(dependency_alerts.total)
          [] k = "CodeAlerts_Critical" -> JNum(code_alerts.critical)
          [] k = "CodeAlerts_High" -> JNum(code_alerts.high)
          [] k = "CodeAlerts_Medium" -> JNum(code_alerts.medium)
          [] k = "CodeAlerts_Low" -> JNum(code_alerts.low)
          [] k = "SecretAlerts_Total" -> JNum(secret_alerts_.total)
          [] k = "SecretAlerts_By_Type" -> SecretTypesText(secret_alerts_.types)
          [] k = "DependencyAlerts_Critical" -> JNum(dependency_alerts.critical)
          [] k = "DependencyAlerts_High" -> JNum(dependency_alerts.high)
          [] k = "DependencyAlerts_Moderate" -> JNum(dependency_alerts.moderate)
          [] k = "DependencyAlerts_Low" -> JNum(dependency_alerts.low)
          [] OTHER -> NowText]

\* (success, code_alerts, secret_alerts, dependency_alerts), and the properties
\* the repository has after the call
ScanResult(success, code_alerts, secret_alerts_, dependency_alerts, stored) ==
    [success |-> success, code_alerts |-> code_alerts, secret_alerts |-> secret_alerts_,
     dependency_alerts |-> dependency_alerts, stored |-> stored]

\* scan_repository_for_alerts(gh, repo, existing_repos_properties)
scan_repository_for_alerts(env, stored) ==
    LET none_code == get_code_scanning_alerts(<<>>, "none")
        none_secret == [total |-> 0]
        none_dependency == get_dependency_alerts(<<>>, "none")
        code_alerts == get_code_scanning_alerts(env.code.alerts, env.code.api)
        secret_alerts_ == GetSecretScanningAlerts(env.secret.alerts, env.secret.api)
        dependency_alerts == get_dependency_alerts(env.dependency.alerts, env.dependency.api)
    IN  IF ~env.fork \/ env.should_scan # "True"
        THEN ScanResult(FALSE, none_code, none_secret, none_dependency, stored)
        ELSE IF env.update = "raises"
        THEN ScanResult(FALSE, code_alerts, secret_alerts_, dependency_alerts, stored)
        ELSE ScanResult(TRUE, code_alerts, secret_alerts_, dependency_alerts,
                        PropertiesToUpdate(code_alerts, secret_alerts_, dependency_alerts)
                          @@ stored)

-----------------------------------------------------------------------------
(* The calls of scan_repository_for_alerts *)

\* what the API of one alert type answers
ApiResults == {"returns", "404", "RequestFailed", "Exception"}

\* the retrievals of one alert type: the open alerts, or a failure
Retrievals(severities) ==
    {[api |-> "returns", alerts |-> alerts] :
        alerts \in UNION {[1..n -> severities] : n \in 0..MaxScanAlerts}}
    \cup {[api |-> api, alerts |-> <<>>] : api \in ApiResults \ {"returns"}}

CodeSeverities == {"critical", "High", "error", "note", NoSeverity}
DependencySeverities == {"critical", "MEDIUM", "moderate", "low", NoSeverity}

\* the secret alerts of the calls: one with a display name, one with a type only
ScanSecretAlerts ==
    {[secret_type_display_name |-> JStr(<<"Slack Token">>), secret_type |-> JStr(<<"slack_token">>)],
     [secret_type_display_name |-> None, secret_type |-> JStr(<<"aws_key">>)]}

\* the properties of a repository before the call: none, or those of a scan older
\* than every threshold
StoredBefore ==
    {<<>>, Property(GHAS_STATUS_UPDATED, JStr(InstantText(MaxThreshold + 1))) @@ CompleteAlerts}

AlertsInit ==
    /\ alerts_env \in [fork : BOOLEAN,
                       should_scan : {"True", "False", "raises"},
                       code : Retrievals(CodeSeverities),
                       secret : Retrievals(ScanSecretAlerts),
                       dependency : Retrievals(DependencySeverities),
                       update : {"returns", "raises"},
                       stored : StoredBefore]
    /\ alerts_stored = alerts_env.stored
    /\ alerts_return = None
    /\ OnlyAlertsRuns

\* scan_repository_for_alerts(gh, repo, existing_repos_properties)
CallScanRepositoryForAlerts ==
    /\ alerts_return = None
    /\ alerts_return' = scan_repository_for_alerts(alerts_env, alerts_stored)
    /\ alerts_stored' = alerts_return'.stored
    /\ UNCHANGED alerts_env
    /\ UNCHANGED notAlertsVars

AlertsNext == CallScanRepositoryForAlerts

AlertsSpec == AlertsInit /\ [][AlertsNext]_vars

-----------------------------------------------------------------------------
(* Properties of scan_repository_for_alerts *)

AlertsScanned == alerts_return # None

\* the retrieval failed with an API error other than "not found"
RetrievalFailed(retrieval) == retrieval.api \in {"RequestFailed", "Exception"}

\* a retrieval of the scan failed
SomeRetrievalFailed ==
    \/ RetrievalFailed(alerts_env.code)
    \/ RetrievalFailed(alerts_env.secret)
    \/ RetrievalFailed(alerts_env.dependency)

\* C30: when the retrieval of code, secret or dependency alerts fails with an API
\* error, scan_repository_for_alerts writes no counts and does not advance
\* GHAS_Status_Updated: the properties of the repository stay as they were
C30_NothingWrittenAfterFailedRetrieval ==
    (AlertsScanned /\ SomeRetrievalFailed) => alerts_stored = alerts_env.stored

====
